---- MODULE Spec2Model ----
(***************************************************************************)
(* Things 3 -> Google Tasks migrator: the source reader (things_reader.py), *)
(* the destination client (google_tasks_client.py) and the three migration *)
(* phases of main() (things_to_google_tasks.py).                            *)
(***************************************************************************)
EXTENDS Integers, Sequences, FiniteSets, TLC

VARIABLES
    db,                          \* the Things store: [areas, tasks] (TMArea / TMTask rows)
    tasklists,                   \* destination: the account's task lists, in service order
    gtasks,                      \* destination: the tasks created so far
    log,                         \* what the run did, in order: client calls, step and error lines
    fails,                       \* failures injected so far (bounded by MaxFail)
    closed,                      \* number of things_reader.close() calls
    pc,                          \* position in main()
    google_task_lists_cache,     \* Area uuid -> task list
    default_google_list_cache,   \* memoized default list, or NoList
    migrated_project_task_ids,   \* set of placed source uuids
    areas,                       \* Phase 1: areas still to process
    projects,                    \* Phase 2: projects still to process (head = current)
    headings,                    \* Phase 2: headings of the current project still to process
    tasks_under_heading,         \* Phase 2: tasks of the current heading still to process
    project_direct_tasks,        \* Phase 2: direct tasks of the current project still to process
    standalone_tasks_to_migrate, \* Phase 3: filtered tasks still to process
    target_list_id,              \* Phase 2: list id of the current project
    g_project_task,              \* Phase 2: id returned for the current project
    g_heading_task               \* Phase 2: id returned for the current heading

vars == <<db, tasklists, gtasks, log, fails, closed, pc, google_task_lists_cache,
          default_google_list_cache, migrated_project_task_ids, areas, projects,
          headings, tasks_under_heading, project_direct_tasks,
          standalone_tasks_to_migrate, target_list_id, g_project_task, g_heading_task>>

----------------------------------------------------------------------------
(* Bounds of the model *)

\* at most this many injected failures (service errors, reader errors) per run
MaxFail == 2

----------------------------------------------------------------------------
(* Values *)

\* Python None, for uuids, titles and notes
None == "None"

\* TMTask.type
TypeTask == 0
TypeProject == 1
TypeHeading == 2

DEFAULT_LIST_TITLE == "Things Imported Tasks"

\* "no task list" (a None where a task list dict is expected); real ids are >= 1
NoList == [id |-> 0, title |-> None]

\* values of the dueDate column as stored, and as Python values
DbNull == [k |-> "null", v |-> ""]
DbText(s) == [k |-> "text", v |-> s]
DbNumber(s) == [k |-> "number", v |-> s]
PyNone == [k |-> "none", v |-> ""]
PyStr(s) == [k |-> "str", v |-> s]
PyDatetime(s) == [k |-> "datetime", v |-> s]
PyNumber(s) == [k |-> "number", v |-> s]

\* the date texts of the model that datetime.strptime(s, '%Y-%m-%d') accepts
WellFormedDates == {"2024-07-20", "2024-08-15"}

\* peewee DateTimeField: a stored text in a known format becomes a datetime,
\* any other stored value is handed over as it is
DateTimeField_python_value(d) ==
    CASE d.k = "null" -> PyNone
      [] d.k = "text" -> IF d.v \in WellFormedDates THEN PyDatetime(d.v) ELSE PyStr(d.v)
      [] OTHER -> PyNumber(d.v)

\* Python truthiness of a due_date_str argument
Truthy(due) ==
    CASE due.k = "none" -> FALSE
      [] due.k = "str" -> due.v # ""
      [] due.k = "number" -> due.v # "0"
      [] OTHER -> TRUE

\* datetime.strptime(due_date_str, '%Y-%m-%d'): "ok", "ValueError" or "TypeError"
strptime(due) ==
    IF due.k # "str" THEN "TypeError"
    ELSE IF due.v \in WellFormedDates THEN "ok" ELSE "ValueError"

\* dt.isoformat() + 'Z'
isoformatZ(s) == s \o "T00:00:00" \o "Z"

----------------------------------------------------------------------------
(* Source reader *)

AreaDict(a) == [uuid |-> a.uuid, title |-> a.title]

get_areas(store) ==
    LET rows == SelectSeq(store.areas, LAMBDA a : a.trashed = 0)
    IN  [i \in 1..Len(rows) |-> AreaDict(rows[i])]

ProjectDict(t) ==
    [uuid |-> t.uuid, title |-> t.title, notes |-> t.notes, area_uuid |-> t.area]

\* an accessor that returns the trashed Projects too
get_projects_WithTrashed(store) ==
    LET rows == SelectSeq(store.tasks, LAMBDA t : t.type = TypeProject)
    IN  [i \in 1..Len(rows) |-> ProjectDict(rows[i])]

get_projects(store) ==
    LET rows == SelectSeq(store.tasks, LAMBDA t : t.type = TypeProject /\ t.trashed = 0)
    IN  [i \in 1..Len(rows) |-> ProjectDict(rows[i])]

TaskDict(t) ==
    [uuid |-> t.uuid, title |-> t.title, notes |-> t.notes,
     due_date |-> DateTimeField_python_value(t.dueDate),
     project_uuid |-> t.project, area_uuid |-> t.area,
     heading_uuid |-> t.heading]

\* the dicts of get_tasks_for_project and get_tasks_for_heading
TaskDictShort(t) ==
    [uuid |-> t.uuid, title |-> t.title, notes |-> t.notes,
     due_date |-> DateTimeField_python_value(t.dueDate)]

get_tasks(store) ==
    LET rows == SelectSeq(store.tasks, LAMBDA t : t.type = TypeTask /\ t.trashed = 0)
    IN  [i \in 1..Len(rows) |-> TaskDict(rows[i])]

HeadingDict(t) == [uuid |-> t.uuid, title |-> t.title]

get_headings_for_project(store, project_uuid) ==
    LET rows == SelectSeq(store.tasks, LAMBDA t : /\ t.type = TypeHeading
                                                  /\ t.trashed = 0
                                                  /\ t.project = project_uuid)
    IN  [i \in 1..Len(rows) |-> HeadingDict(rows[i])]

get_tasks_for_project(store, project_uuid) ==
    LET rows == SelectSeq(store.tasks, LAMBDA t : /\ t.type = TypeTask
                                                  /\ t.trashed = 0
                                                  /\ t.project = project_uuid
                                                  /\ t.heading = None)
    IN  [i \in 1..Len(rows) |-> TaskDictShort(rows[i])]

get_tasks_for_heading(store, heading_uuid) ==
    LET rows == SelectSeq(store.tasks, LAMBDA t : /\ t.type = TypeTask
                                                  /\ t.trashed = 0
                                                  /\ t.heading = heading_uuid)
    IN  [i \in 1..Len(rows) |-> TaskDictShort(rows[i])]

----------------------------------------------------------------------------
(* Destination client *)

\* how one request to the service (...execute()) ends: normally, with an
\* HttpError, or with any other exception (transport, authentication, ...)
Outcomes == {"ok", "HttpError", "Exception"}

Cost(o) == IF o = "ok" THEN 0 ELSE 1

RECURSIVE MaxId(_)
MaxId(s) == IF s = <<>> THEN 0
            ELSE LET m == MaxId(Tail(s)) IN IF Head(s).id > m THEN Head(s).id ELSE m

\* get_task_lists: the items, or [] on HttpError
get_task_lists(lists, o) == IF o = "ok" THEN lists ELSE <<>>

\* a lookup that returns the first list whatever its title
get_task_list_by_title_AnyTitle(lists, title, o) ==
    LET hits == get_task_lists(lists, o)
    IN  IF hits = <<>> THEN NoList ELSE Head(hits)

\* get_task_list_by_title: the first list with that exact title, or NoList
get_task_list_by_title(lists, title, o) ==
    LET hits == SelectSeq(get_task_lists(lists, o), LAMBDA l : l.title = title)
    IN  IF hits = <<>> THEN NoList ELSE Head(hits)

\* create_task_list: [ret, lists]; ret is NoList on HttpError
create_task_list(lists, title, o) ==
    IF o = "ok"
    THEN LET created == [id |-> MaxId(lists) + 1, title |-> title]
         IN  [ret |-> created, lists |-> Append(lists, created)]
    ELSE [ret |-> NoList, lists |-> lists]

\* create_task, the body sent: notes only when truthy, due only when the
\* date text converts
TaskNotes(notes) == IF notes # None /\ notes # "" THEN notes ELSE None

\* create_task, the due-date conversion: "none" (no due_date_str), "ok",
\* "ValueError" (caught, warned) or "TypeError" (not caught)
DueConversion(due_date_str) == IF Truthy(due_date_str) THEN strptime(due_date_str) ELSE "none"

TaskDue(due_date_str) ==
    IF DueConversion(due_date_str) = "ok" THEN isoformatZ(due_date_str.v) ELSE None

\* a create_task that lets the HttpError of the insert escape
create_task_HttpErrorEscapes(tasks, task_list_id, title, notes, due_date_str, parent_task_id, o) ==
    IF DueConversion(due_date_str) = "TypeError"
    THEN [ret |-> 0, exc |-> "TypeError", issued |-> FALSE, tasks |-> tasks]
    ELSE IF o = "ok"
         THEN LET created == [id |-> MaxId(tasks) + 1, tasklist |-> task_list_id,
                              title |-> title, notes |-> TaskNotes(notes),
                              due |-> TaskDue(due_date_str), parent |-> parent_task_id]
              IN  [ret |-> created.id, exc |-> "", issued |-> TRUE,
                   tasks |-> Append(tasks, created)]
         ELSE [ret |-> 0, exc |-> "Exception", issued |-> TRUE, tasks |-> tasks]

\* a create_task that hands out an id for an insert the service refused
create_task_IdOnFailure(tasks, task_list_id, title, notes, due_date_str, parent_task_id, o) ==
    IF DueConversion(due_date_str) = "TypeError"
    THEN [ret |-> 0, exc |-> "TypeError", issued |-> FALSE, tasks |-> tasks]
    ELSE LET created == [id |-> MaxId(tasks) + 1, tasklist |-> task_list_id,
                         title |-> title, notes |-> TaskNotes(notes),
                         due |-> TaskDue(due_date_str), parent |-> parent_task_id]
         IN  CASE o = "ok" -> [ret |-> created.id, exc |-> "", issued |-> TRUE,
                               tasks |-> Append(tasks, created)]
               [] o = "HttpError" -> [ret |-> created.id, exc |-> "", issued |-> TRUE,
                                      tasks |-> tasks]
               [] OTHER -> [ret |-> 0, exc |-> "Exception", issued |-> TRUE, tasks |-> tasks]

\* create_task: [ret, exc, issued, tasks]; ret is the new task's id, 0 for None;
\* exc names the exception that leaves create_task, "" for a normal return;
\* issued says whether tasks().insert was called
create_task(tasks, task_list_id, title, notes, due_date_str, parent_task_id, o) ==
    IF DueConversion(due_date_str) = "TypeError"
    THEN [ret |-> 0, exc |-> "TypeError", issued |-> FALSE, tasks |-> tasks]
    ELSE CASE o = "ok" ->
                LET created == [id |-> MaxId(tasks) + 1, tasklist |-> task_list_id,
                                title |-> title, notes |-> TaskNotes(notes),
                                due |-> TaskDue(due_date_str), parent |-> parent_task_id]
                IN  [ret |-> created.id, exc |-> "", issued |-> TRUE,
                     tasks |-> Append(tasks, created)]
           [] o = "HttpError" -> [ret |-> 0, exc |-> "", issued |-> TRUE, tasks |-> tasks]
           [] OTHER -> [ret |-> 0, exc |-> "Exception", issued |-> TRUE, tasks |-> tasks]

----------------------------------------------------------------------------
(* The log: destination-client calls and the lines main() prints *)

\* op: the client method; by: the place in main() that called it; item: the
\* source uuid it was called for; outcome: how the request to the service ended
\* ("none": no request was made); ret: the id returned, 0 for None or [];
\* exc: the exception that left the method, "" for a normal return
ListCall(op, by, phase, item, title, ret, o) ==
    [op |-> op, by |-> by, phase |-> phase, item |-> item, tasklist |-> 0,
     title |-> title, notes |-> None, due |-> PyNone, parent |-> 0,
     ret |-> ret, exc |-> IF o = "Exception" THEN "Exception" ELSE "", outcome |-> o]

\* a line main() prints: op is "step" (a step's banner) or "error" (the
\* except clause of a step, exc the exception it caught)
Line(op, phase, exc) ==
    [op |-> op, by |-> "main", phase |-> phase, item |-> None, tasklist |-> 0,
     title |-> None, notes |-> None, due |-> PyNone, parent |-> 0,
     ret |-> 0, exc |-> exc, outcome |-> "none"]

TaskCall(by, phase, item, task_list_id, title, notes, due, parent, r, o) ==
    [op |-> "create_task", by |-> by, phase |-> phase, item |-> item,
     tasklist |-> task_list_id, title |-> title, notes |-> notes, due |-> due,
     parent |-> parent, ret |-> r.ret, exc |-> r.exc,
     outcome |-> IF r.issued THEN o ELSE "none"]

----------------------------------------------------------------------------
(* Migration driver: main(), from "Starting Migration" to the end *)

\* how a call of the source reader ends: its rows, or an exception
ReaderOutcomes == {"ok", "Exception"}

phaseLocals == <<projects, headings, tasks_under_heading, project_direct_tasks,
                 target_list_id, g_project_task, g_heading_task>>

CacheSet(cache, area_uuid, l) ==
    [u \in DOMAIN cache \cup {area_uuid} |-> IF u = area_uuid THEN l ELSE cache[u]]

\* "look the title up; if absent, create the list": the lookup's outcome is o1,
\* the creation's o2 (o2 is "ok" when no creation is attempted).
\* [ret, exc, lists, calls, tried]: ret is NoList when neither yields a list,
\* tried says whether create_task_list was called.
LookupOrCreate(lists, title, by, phase, item, o1, o2) ==
    LET existing == get_task_list_by_title(lists, title, o1)
        c1 == ListCall("get_task_list_by_title", by, phase, item, title,
                       IF o1 = "Exception" THEN 0 ELSE existing.id, o1)
        new == create_task_list(lists, title, o2)
        c2 == ListCall("create_task_list", by, phase, item, title, new.ret.id, o2)
    IN  CASE o1 = "Exception" ->
               [ret |-> NoList, exc |-> "Exception", lists |-> lists, calls |-> <<c1>>,
                tried |-> FALSE]
          [] o1 # "Exception" /\ existing # NoList ->
               [ret |-> existing, exc |-> "", lists |-> lists, calls |-> <<c1>>,
                tried |-> FALSE]
          [] o1 # "Exception" /\ existing = NoList /\ o2 = "Exception" ->
               [ret |-> NoList, exc |-> "Exception", lists |-> lists, calls |-> <<c1, c2>>,
                tried |-> TRUE]
          [] OTHER ->
               [ret |-> new.ret, exc |-> "", lists |-> new.lists, calls |-> <<c1, c2>>,
                tried |-> TRUE]

\* a default-list helper that never consults its memo
get_or_create_default_list_NoMemo(memo, lists, phase, item, o1, o2) ==
    LET r == LookupOrCreate(lists, DEFAULT_LIST_TITLE, "default", phase, item, o1, o2)
    IN  [ret |-> r.ret, exc |-> r.exc, lists |-> r.lists, calls |-> r.calls,
         tried |-> r.tried, memo |-> r.ret]

\* get_or_create_default_list(): the memo first, then lookup-or-create
get_or_create_default_list(memo, lists, phase, item, o1, o2) ==
    IF memo # NoList
    THEN [ret |-> memo, exc |-> "", lists |-> lists, calls |-> <<>>, tried |-> FALSE,
          memo |-> memo]
    ELSE LET r == LookupOrCreate(lists, DEFAULT_LIST_TITLE, "default", phase, item, o1, o2)
         IN  [ret |-> r.ret, exc |-> r.exc, lists |-> r.lists, calls |-> r.calls,
              tried |-> r.tried, memo |-> r.ret]

\* a resolution that falls back on whatever list is cached
ResolveTargetList_AnyCached(cache, memo, lists, area_uuid, phase, item, o1, o2) ==
    IF DOMAIN cache # {}
    THEN [ret |-> cache[CHOOSE u \in DOMAIN cache : TRUE], exc |-> "", lists |-> lists,
          calls |-> <<>>, tried |-> FALSE, memo |-> memo]
    ELSE get_or_create_default_list(memo, lists, phase, item, o1, o2)

\* the target list of a project or standalone task: the Area's cached list, or
\* the default list
ResolveTargetList(cache, memo, lists, area_uuid, phase, item, o1, o2) ==
    IF area_uuid # None /\ area_uuid \in DOMAIN cache
    THEN [ret |-> cache[area_uuid], exc |-> "", lists |-> lists, calls |-> <<>>,
          tried |-> FALSE, memo |-> memo]
    ELSE get_or_create_default_list(memo, lists, phase, item, o1, o2)

\* an except clause that ends the run on the spot
AfterError_Exit(phase) == "done"

\* where main() continues after the except clause of a step
AfterError(phase) ==
    CASE phase = 1 -> "get_projects"
      [] phase = 2 -> "get_tasks"
      [] OTHER -> "cleanup"

\* the lines of a step's except clause when exc left its try block
ErrorLines(phase, exc) == IF exc = "" THEN <<>> ELSE <<Line("error", phase, exc)>>

\* what a call of the source reader leaves in the log: nothing when it returns
\* its rows, the call and the step's except clause when it raises
ReaderLines(op, phase, r) ==
    IF r = "ok" THEN <<>>
    ELSE <<[Line(op, phase, r) EXCEPT !.by = "reader"], Line("error", phase, r)>>

\* the outcomes of the calls a step did not make are "ok"; the failures it
\* did inject fit the budget
Charged(outs, used) ==
    /\ \A i \in DOMAIN outs : ~used[i] => outs[i] = "ok"
    /\ fails' = fails + Cost(outs[1]) + Cost(outs[2]) + Cost(outs[3])
    /\ fails' <= MaxFail

(* Step 1: Areas -> task lists *)

GetAreas ==
    /\ pc = "get_areas"
    /\ \E r \in ReaderOutcomes :
         /\ fails' = fails + Cost(r)
         /\ fails' <= MaxFail
         /\ log' = log \o <<Line("step", 1, "")>> \o ReaderLines("get_areas", 1, r)
         /\ IF r = "ok"
            THEN /\ areas' = get_areas(db)
                 /\ pc' = "areas"
            ELSE /\ areas' = areas
                 /\ pc' = AfterError(1)
    /\ UNCHANGED <<db, tasklists, gtasks, closed, google_task_lists_cache,
                   default_google_list_cache, migrated_project_task_ids,
                   standalone_tasks_to_migrate, phaseLocals>>

MigrateArea ==
    /\ pc = "areas"
    /\ areas # <<>>
    /\ \E o1, o2 \in Outcomes :
         LET area == Head(areas)
             r == LookupOrCreate(tasklists, area.title, "area", 1, area.uuid, o1, o2)
         IN  /\ Charged(<<o1, o2, "ok">>, <<TRUE, r.tried, FALSE>>)
             /\ tasklists' = r.lists
             /\ log' = log \o r.calls \o ErrorLines(1, r.exc)
             /\ IF r.exc # ""
                THEN /\ pc' = AfterError(1)
                     /\ UNCHANGED <<areas, google_task_lists_cache>>
                ELSE /\ pc' = pc
                     /\ areas' = Tail(areas)
                     /\ google_task_lists_cache' =
                          IF r.ret # NoList
                          THEN CacheSet(google_task_lists_cache, area.uuid, r.ret)
                          ELSE google_task_lists_cache
    /\ UNCHANGED <<db, gtasks, closed, default_google_list_cache,
                   migrated_project_task_ids, standalone_tasks_to_migrate, phaseLocals>>

AreasDone ==
    /\ pc = "areas"
    /\ areas = <<>>
    /\ pc' = "get_projects"
    /\ UNCHANGED <<db, tasklists, gtasks, log, fails, closed, google_task_lists_cache,
                   default_google_list_cache, migrated_project_task_ids, areas,
                   standalone_tasks_to_migrate, phaseLocals>>

(* Step 2: Projects, their Headings and Tasks *)

GetProjects ==
    /\ pc = "get_projects"
    /\ \E r \in ReaderOutcomes :
         /\ fails' = fails + Cost(r)
         /\ fails' <= MaxFail
         /\ log' = log \o <<Line("step", 2, "")>> \o ReaderLines("get_projects", 2, r)
         /\ IF r = "ok"
            THEN /\ projects' = get_projects(db)
                 /\ pc' = "projects"
            ELSE /\ projects' = projects
                 /\ pc' = AfterError(2)
    /\ UNCHANGED <<db, tasklists, gtasks, closed, google_task_lists_cache,
                   default_google_list_cache, migrated_project_task_ids, areas,
                   headings, tasks_under_heading, project_direct_tasks,
                   standalone_tasks_to_migrate, target_list_id, g_project_task,
                   g_heading_task>>

MigrateProject ==
    /\ pc = "projects"
    /\ projects # <<>>
    /\ \E o1, o2, o3 \in Outcomes :
         LET project == Head(projects)
             t == ResolveTargetList(google_task_lists_cache, default_google_list_cache,
                                    tasklists, project.area_uuid, 2, project.uuid, o1, o2)
             go == t.exc = "" /\ t.ret # NoList
             c == create_task(gtasks, t.ret.id, project.title, project.notes, PyNone, 0, o3)
             call == TaskCall("project", 2, project.uuid, t.ret.id, project.title,
                              project.notes, PyNone, 0, c, o3)
         IN  /\ Charged(<<o1, o2, o3>>, <<t.calls # <<>>, t.tried, go>>)
             /\ tasklists' = t.lists
             /\ default_google_list_cache' = t.memo
             /\ IF ~go
                THEN /\ log' = log \o t.calls \o ErrorLines(2, t.exc)
                     /\ IF t.exc # ""
                        THEN pc' = AfterError(2) /\ projects' = projects
                        ELSE pc' = pc /\ projects' = Tail(projects)
                     /\ UNCHANGED <<gtasks, migrated_project_task_ids, target_list_id,
                                    g_project_task>>
                ELSE /\ log' = log \o t.calls \o <<call>> \o ErrorLines(2, c.exc)
                     /\ gtasks' = c.tasks
                     /\ CASE c.exc # "" ->
                               /\ pc' = AfterError(2)
                               /\ UNCHANGED <<projects, migrated_project_task_ids,
                                              target_list_id, g_project_task>>
                          [] c.exc = "" /\ c.ret = 0 ->
                               /\ pc' = pc
                               /\ projects' = Tail(projects)
                               /\ UNCHANGED <<migrated_project_task_ids, target_list_id,
                                              g_project_task>>
                          [] OTHER ->
                               /\ pc' = "get_headings"
                               /\ migrated_project_task_ids' =
                                    migrated_project_task_ids \cup {project.uuid}
                               /\ target_list_id' = t.ret.id
                               /\ g_project_task' = c.ret
                               /\ projects' = projects
    /\ UNCHANGED <<db, closed, google_task_lists_cache, areas, headings,
                   tasks_under_heading, project_direct_tasks,
                   standalone_tasks_to_migrate, g_heading_task>>

ProjectsDone ==
    /\ pc = "projects"
    /\ projects = <<>>
    /\ pc' = "get_tasks"
    /\ UNCHANGED <<db, tasklists, gtasks, log, fails, closed, google_task_lists_cache,
                   default_google_list_cache, migrated_project_task_ids, areas,
                   standalone_tasks_to_migrate, phaseLocals>>

GetHeadings ==
    /\ pc = "get_headings"
    /\ \E r \in ReaderOutcomes :
         /\ fails' = fails + Cost(r)
         /\ fails' <= MaxFail
         /\ log' = log \o ReaderLines("get_headings_for_project", 2, r)
         /\ IF r = "ok"
            THEN /\ headings' = get_headings_for_project(db, Head(projects).uuid)
                 /\ pc' = "headings"
            ELSE /\ headings' = headings
                 /\ pc' = AfterError(2)
    /\ UNCHANGED <<db, tasklists, gtasks, closed, google_task_lists_cache,
                   default_google_list_cache, migrated_project_task_ids, areas,
                   projects, tasks_under_heading, project_direct_tasks,
                   standalone_tasks_to_migrate, target_list_id, g_project_task,
                   g_heading_task>>

\* f"--- {heading_title} ---"
\* a placeholder that carries the bare title
HeadingTaskTitle_Plain(heading_title) == heading_title

HeadingTaskTitle(heading_title) == "--- " \o heading_title \o " ---"

MigrateHeading ==
    /\ pc = "headings"
    /\ headings # <<>>
    /\ \E o \in Outcomes :
         LET heading == Head(headings)
             title == HeadingTaskTitle(heading.title)
             c == create_task(gtasks, target_list_id, title, None, PyNone, g_project_task, o)
             call == TaskCall("heading", 2, heading.uuid, target_list_id, title, None,
                              PyNone, g_project_task, c, o)
         IN  /\ Charged(<<o, "ok", "ok">>, <<TRUE, FALSE, FALSE>>)
             /\ log' = log \o <<call>> \o ErrorLines(2, c.exc)
             /\ gtasks' = c.tasks
             /\ CASE c.exc # "" ->
                       /\ pc' = AfterError(2)
                       /\ UNCHANGED <<headings, migrated_project_task_ids, g_heading_task>>
                  [] c.exc = "" /\ c.ret = 0 ->
                       /\ pc' = pc
                       /\ headings' = Tail(headings)
                       /\ UNCHANGED <<migrated_project_task_ids, g_heading_task>>
                  [] OTHER ->
                       /\ pc' = "get_heading_tasks"
                       /\ migrated_project_task_ids' =
                            migrated_project_task_ids \cup {heading.uuid}
                       /\ g_heading_task' = c.ret
                       /\ headings' = headings
    /\ UNCHANGED <<db, tasklists, closed, google_task_lists_cache,
                   default_google_list_cache, areas, projects, tasks_under_heading,
                   project_direct_tasks, standalone_tasks_to_migrate, target_list_id,
                   g_project_task>>

HeadingsDone ==
    /\ pc = "headings"
    /\ headings = <<>>
    /\ pc' = "get_direct_tasks"
    /\ UNCHANGED <<db, tasklists, gtasks, log, fails, closed, google_task_lists_cache,
                   default_google_list_cache, migrated_project_task_ids, areas,
                   standalone_tasks_to_migrate, phaseLocals>>

GetHeadingTasks ==
    /\ pc = "get_heading_tasks"
    /\ \E r \in ReaderOutcomes :
         /\ fails' = fails + Cost(r)
         /\ fails' <= MaxFail
         /\ log' = log \o ReaderLines("get_tasks_for_heading", 2, r)
         /\ IF r = "ok"
            THEN /\ tasks_under_heading' = get_tasks_for_heading(db, Head(headings).uuid)
                 /\ pc' = "heading_tasks"
            ELSE /\ tasks_under_heading' = tasks_under_heading
                 /\ pc' = AfterError(2)
    /\ UNCHANGED <<db, tasklists, gtasks, closed, google_task_lists_cache,
                   default_google_list_cache, migrated_project_task_ids, areas,
                   projects, headings, project_direct_tasks,
                   standalone_tasks_to_migrate, target_list_id, g_project_task,
                   g_heading_task>>

\* a Phase 2 task loop that hangs each task under the task created last
MigrateProjectTask_UnderLast(task, by, parent, o) ==
    LET c == create_task(gtasks, target_list_id, task.title, task.notes, task.due_date,
                         MaxId(gtasks), o)
        call == TaskCall(by, 2, task.uuid, target_list_id, task.title, task.notes,
                         task.due_date, MaxId(gtasks), c, o)
    IN  [calls |-> <<call>> \o ErrorLines(2, c.exc), gtasks |-> c.tasks, exc |-> c.exc,
         issued |-> c.issued,
         placed |-> IF c.exc = "" /\ c.ret # 0
                    THEN migrated_project_task_ids \cup {task.uuid}
                    ELSE migrated_project_task_ids]

\* a Phase 2 task loop that creates each task in another list than the project's
MigrateProjectTask_OtherList(task, by, parent, o) ==
    LET c == create_task(gtasks, target_list_id + 1, task.title, task.notes, task.due_date,
                         parent, o)
        call == TaskCall(by, 2, task.uuid, target_list_id + 1, task.title, task.notes,
                         task.due_date, parent, c, o)
    IN  [calls |-> <<call>> \o ErrorLines(2, c.exc), gtasks |-> c.tasks, exc |-> c.exc,
         issued |-> c.issued,
         placed |-> IF c.exc = "" /\ c.ret # 0
                    THEN migrated_project_task_ids \cup {task.uuid}
                    ELSE migrated_project_task_ids]

\* a Phase 2 task loop that marks the task as placed whatever the call returned
MigrateProjectTask_AlwaysPlaced(task, by, parent, o) ==
    LET c == create_task(gtasks, target_list_id, task.title, task.notes, task.due_date,
                         parent, o)
        call == TaskCall(by, 2, task.uuid, target_list_id, task.title, task.notes,
                         task.due_date, parent, c, o)
    IN  [calls |-> <<call>> \o ErrorLines(2, c.exc), gtasks |-> c.tasks, exc |-> c.exc,
         issued |-> c.issued,
         placed |-> migrated_project_task_ids \cup {task.uuid}]

\* one iteration of a Phase 2 task loop: the create_task call for `task` under
\* `parent`, then the placed-id bookkeeping. [calls, gtasks, placed, exc, issued]
MigrateProjectTask(task, by, parent, o) ==
    LET c == create_task(gtasks, target_list_id, task.title, task.notes, task.due_date,
                         parent, o)
        call == TaskCall(by, 2, task.uuid, target_list_id, task.title, task.notes,
                         task.due_date, parent, c, o)
    IN  [calls |-> <<call>> \o ErrorLines(2, c.exc), gtasks |-> c.tasks, exc |-> c.exc,
         issued |-> c.issued,
         placed |-> IF c.exc = "" /\ c.ret # 0
                    THEN migrated_project_task_ids \cup {task.uuid}
                    ELSE migrated_project_task_ids]

MigrateHeadingTask ==
    /\ pc = "heading_tasks"
    /\ tasks_under_heading # <<>>
    /\ \E o \in Outcomes :
         LET r == MigrateProjectTask(Head(tasks_under_heading), "heading_task",
                                     g_heading_task, o)
         IN  /\ Charged(<<o, "ok", "ok">>, <<r.issued, FALSE, FALSE>>)
             /\ log' = log \o r.calls
             /\ gtasks' = r.gtasks
             /\ migrated_project_task_ids' = r.placed
             /\ IF r.exc # ""
                THEN pc' = AfterError(2) /\ tasks_under_heading' = tasks_under_heading
                ELSE pc' = pc /\ tasks_under_heading' = Tail(tasks_under_heading)
    /\ UNCHANGED <<db, tasklists, closed, google_task_lists_cache,
                   default_google_list_cache, areas, projects, headings,
                   project_direct_tasks, standalone_tasks_to_migrate, target_list_id,
                   g_project_task, g_heading_task>>

HeadingTasksDone ==
    /\ pc = "heading_tasks"
    /\ tasks_under_heading = <<>>
    /\ pc' = "headings"
    /\ headings' = Tail(headings)
    /\ UNCHANGED <<db, tasklists, gtasks, log, fails, closed, google_task_lists_cache,
                   default_google_list_cache, migrated_project_task_ids, areas,
                   projects, tasks_under_heading, project_direct_tasks,
                   standalone_tasks_to_migrate, target_list_id, g_project_task,
                   g_heading_task>>

GetDirectTasks ==
    /\ pc = "get_direct_tasks"
    /\ \E r \in ReaderOutcomes :
         /\ fails' = fails + Cost(r)
         /\ fails' <= MaxFail
         /\ log' = log \o ReaderLines("get_tasks_for_project", 2, r)
         /\ IF r = "ok"
            THEN /\ project_direct_tasks' = get_tasks_for_project(db, Head(projects).uuid)
                 /\ pc' = "direct_tasks"
            ELSE /\ project_direct_tasks' = project_direct_tasks
                 /\ pc' = AfterError(2)
    /\ UNCHANGED <<db, tasklists, gtasks, closed, google_task_lists_cache,
                   default_google_list_cache, migrated_project_task_ids, areas,
                   projects, headings, tasks_under_heading,
                   standalone_tasks_to_migrate, target_list_id, g_project_task,
                   g_heading_task>>

MigrateDirectTask ==
    /\ pc = "direct_tasks"
    /\ project_direct_tasks # <<>>
    /\ \E o \in Outcomes :
         LET r == MigrateProjectTask(Head(project_direct_tasks), "direct_task",
                                     g_project_task, o)
         IN  /\ Charged(<<o, "ok", "ok">>, <<r.issued, FALSE, FALSE>>)
             /\ log' = log \o r.calls
             /\ gtasks' = r.gtasks
             /\ migrated_project_task_ids' = r.placed
             /\ IF r.exc # ""
                THEN pc' = AfterError(2) /\ project_direct_tasks' = project_direct_tasks
                ELSE pc' = pc /\ project_direct_tasks' = Tail(project_direct_tasks)
    /\ UNCHANGED <<db, tasklists, closed, google_task_lists_cache,
                   default_google_list_cache, areas, projects, headings,
                   tasks_under_heading, standalone_tasks_to_migrate, target_list_id,
                   g_project_task, g_heading_task>>

DirectTasksDone ==
    /\ pc = "direct_tasks"
    /\ project_direct_tasks = <<>>
    /\ pc' = "projects"
    /\ projects' = Tail(projects)
    /\ UNCHANGED <<db, tasklists, gtasks, log, fails, closed, google_task_lists_cache,
                   default_google_list_cache, migrated_project_task_ids, areas,
                   headings, tasks_under_heading, project_direct_tasks,
                   standalone_tasks_to_migrate, target_list_id, g_project_task,
                   g_heading_task>>

(* Step 3: standalone Tasks *)

\* a sweep that forgets the placed ids
StandaloneFilter_IgnoresPlaced(task, placed) ==
    ~(task.project_uuid # None /\ task.project_uuid # "")

\* a filter that also leaves out every Task that has a Heading
StandaloneFilter_NoHeading(task, placed) ==
    /\ task.uuid \notin placed
    /\ ~(task.project_uuid # None /\ task.project_uuid # "")
    /\ task.heading_uuid = None

\* the filter of the sweep: not placed in Step 2, and no project_uuid
StandaloneFilter(task, placed) ==
    task.uuid \notin placed /\ ~(task.project_uuid # None /\ task.project_uuid # "")

GetTasks ==
    /\ pc = "get_tasks"
    /\ \E r \in ReaderOutcomes :
         /\ fails' = fails + Cost(r)
         /\ fails' <= MaxFail
         /\ log' = log \o <<Line("step", 3, "")>> \o ReaderLines("get_tasks", 3, r)
         /\ IF r = "ok"
            THEN /\ standalone_tasks_to_migrate' = SelectSeq(get_tasks(db),
                                LAMBDA t : StandaloneFilter(t, migrated_project_task_ids))
                 /\ pc' = "standalone"
            ELSE /\ standalone_tasks_to_migrate' = standalone_tasks_to_migrate
                 /\ pc' = AfterError(3)
    /\ UNCHANGED <<db, tasklists, gtasks, closed, google_task_lists_cache,
                   default_google_list_cache, migrated_project_task_ids, areas,
                   phaseLocals>>

MigrateStandaloneTask ==
    /\ pc = "standalone"
    /\ standalone_tasks_to_migrate # <<>>
    /\ \E o1, o2, o3 \in Outcomes :
         LET task == Head(standalone_tasks_to_migrate)
             t == ResolveTargetList(google_task_lists_cache, default_google_list_cache,
                                    tasklists, task.area_uuid, 3, task.uuid, o1, o2)
             go == t.exc = "" /\ t.ret # NoList
             c == create_task(gtasks, t.ret.id, task.title, task.notes, task.due_date, 0, o3)
             call == TaskCall("standalone", 3, task.uuid, t.ret.id, task.title, task.notes,
                              task.due_date, 0, c, o3)
         IN  /\ Charged(<<o1, o2, o3>>, <<t.calls # <<>>, t.tried, go /\ c.issued>>)
             /\ tasklists' = t.lists
             /\ default_google_list_cache' = t.memo
             /\ log' = IF go THEN log \o t.calls \o <<call>> \o ErrorLines(3, c.exc)
                        ELSE log \o t.calls \o ErrorLines(3, t.exc)
             /\ gtasks' = IF go THEN c.tasks ELSE gtasks
             /\ IF t.exc # "" \/ (go /\ c.exc # "")
                THEN /\ pc' = AfterError(3)
                     /\ standalone_tasks_to_migrate' = standalone_tasks_to_migrate
                ELSE /\ pc' = pc
                     /\ standalone_tasks_to_migrate' = Tail(standalone_tasks_to_migrate)
    /\ UNCHANGED <<db, closed, google_task_lists_cache, migrated_project_task_ids, areas,
                   phaseLocals>>

StandaloneDone ==
    /\ pc = "standalone"
    /\ standalone_tasks_to_migrate = <<>>
    /\ pc' = "cleanup"
    /\ UNCHANGED <<db, tasklists, gtasks, log, fails, closed, google_task_lists_cache,
                   default_google_list_cache, migrated_project_task_ids, areas,
                   standalone_tasks_to_migrate, phaseLocals>>

(* Migration cleanup *)

Cleanup ==
    /\ pc = "cleanup"
    /\ closed' = closed + 1
    /\ log' = Append(log, Line("step", 4, ""))
    /\ pc' = "done"
    /\ UNCHANGED <<db, tasklists, gtasks, fails, google_task_lists_cache,
                   default_google_list_cache, migrated_project_task_ids, areas,
                   standalone_tasks_to_migrate, phaseLocals>>

----------------------------------------------------------------------------
(* Startup: main() from the argument parsing to "Starting Migration" *)

\* a path that was not given (argparse's None) or a setting that is absent
NoPath == ""

\* the files that exist when the run starts
ExistingFiles == {"cli.sqlite", "cfg.sqlite", "cli.json", "cfg.json",
                  "config.py", "partial.py", "empty.py"}

exists(path) == path \in ExistingFiles

\* the settings of a config module: a dict keyed by the names it defines
NoSettings == [k \in {} |-> NoPath]

\* load_config(config_path): [found, settings]; found is FALSE for None
load_config(config_path) ==
    CASE ~exists(config_path) -> [found |-> FALSE, settings |-> NoSettings]
      [] config_path = "config.py" ->
           [found |-> TRUE,
            settings |-> [k \in {"THINGS_DB_PATH", "GOOGLE_API_CREDENTIALS_PATH"} |->
                            IF k = "THINGS_DB_PATH" THEN "cfg.sqlite" ELSE "cfg.json"]]
      [] config_path = "partial.py" ->
           [found |-> TRUE, settings |-> [k \in {"THINGS_DB_PATH"} |-> "cfg.sqlite"]]
      [] OTHER -> [found |-> TRUE, settings |-> NoSettings]

\* dict.get(key): None when the key is absent
Get(settings, key) == IF key \in DOMAIN settings THEN settings[key] ELSE NoPath

\* a resolution that prefers the config file's value
Or_ConfigFirst(a, b) == IF b # NoPath THEN b ELSE a

\* Python's `a or b` on paths
Or(a, b) == IF a # NoPath THEN a ELSE b

\* a validation that does not look for the credentials file
ResolvePaths_NoCredsCheck(cli_db_path, cli_creds_path, config_file) ==
    LET db_path == Or(cli_db_path, Get(load_config(config_file).settings, "THINGS_DB_PATH"))
        creds_path == Or(cli_creds_path,
                         Get(load_config(config_file).settings, "GOOGLE_API_CREDENTIALS_PATH"))
    IN  [status |-> IF db_path = NoPath \/ ~exists(db_path) \/ creds_path = NoPath
                    THEN 1 ELSE 0,
         db_path |-> db_path, creds_path |-> creds_path]

\* configuration resolution and path validation: [status, db_path, creds_path],
\* status 1 for sys.exit(1), 0 to go on
ResolvePaths(cli_db_path, cli_creds_path, config_file) ==
    LET c == load_config(config_file)
        loaded == c.found /\ DOMAIN c.settings # {}
        db_path == IF config_file # NoPath /\ loaded
                   THEN Or(cli_db_path, Get(c.settings, "THINGS_DB_PATH"))
                   ELSE cli_db_path
        creds_path == IF config_file # NoPath /\ loaded
                      THEN Or(cli_creds_path, Get(c.settings, "GOOGLE_API_CREDENTIALS_PATH"))
                      ELSE cli_creds_path
        bad == \/ config_file # NoPath /\ ~exists(config_file)
               \/ config_file # NoPath /\ ~loaded
               \/ db_path = NoPath
               \/ creds_path = NoPath
               \/ ~exists(db_path)
               \/ ~exists(creds_path)
    IN  [status |-> IF bad THEN 1 ELSE 0, db_path |-> db_path, creds_path |-> creds_path]

\* the views ThingsReader.__init__ creates in the store, in order
ReaderViews == <<"TaskView", "ProjectView", "HeadingView">>

\* CREATE VIEW IF NOT EXISTS for the first n views
CreateViews(store, n) ==
    [store EXCEPT !.views = @ \cup {ReaderViews[i] : i \in 1..n}]

\* a question that takes every answer for a yes
Confirmed_AnyAnswer(confirm) == TRUE

\* confirm.lower() == 'y'
Confirmed(confirm) == confirm \in {"y", "Y"}

\* a delete_task_list that lets the HttpError out
delete_task_list_HttpErrorEscapes(lists, tasks, task_list_id, o) ==
    CASE o = "ok" ->
           [lists |-> SelectSeq(lists, LAMBDA l : l.id # task_list_id),
            tasks |-> SelectSeq(tasks, LAMBDA t : t.tasklist # task_list_id),
            exc |-> ""]
      [] OTHER -> [lists |-> lists, tasks |-> tasks, exc |-> o]

\* delete_task_list: [lists, tasks, exc]; the list goes with its tasks; an
\* HttpError is printed and nothing is returned either way
delete_task_list(lists, tasks, task_list_id, o) ==
    CASE o = "ok" ->
           [lists |-> SelectSeq(lists, LAMBDA l : l.id # task_list_id),
            tasks |-> SelectSeq(tasks, LAMBDA t : t.tasklist # task_list_id),
            exc |-> ""]
      [] o = "HttpError" -> [lists |-> lists, tasks |-> tasks, exc |-> ""]
      [] OTHER -> [lists |-> lists, tasks |-> tasks, exc |-> "Exception"]

\* get_tasks_in_list: the list's tasks, or [] on HttpError
get_tasks_in_list(tasks, task_list_id, o) ==
    IF o = "ok" THEN SelectSeq(tasks, LAMBDA t : t.tasklist = task_list_id) ELSE <<>>

\* lines of the log for the startup: the arguments, the construction of the
\* reader and of the client, the clean-slate question, a sys.exit
ArgsLine(cli_db_path, cli_creds_path, config_file) ==
    [Line("args", 0, "") EXCEPT !.title = cli_db_path, !.notes = cli_creds_path,
                                !.item = config_file]

ExitLine(status) == [Line("exit", 0, "") EXCEPT !.ret = status]

ReaderLine(db_path, exc) ==
    [Line("ThingsReader", 0, exc) EXCEPT !.by = "reader", !.title = db_path]

ClientLine(creds_path, exc) == [Line("GoogleTasksClient", 0, exc) EXCEPT !.title = creds_path]

CleanSlateLine(clean_slate, confirm) ==
    [Line("clean_slate", 0, "") EXCEPT !.title = confirm,
                                       !.ret = IF clean_slate THEN 1 ELSE 0]

DeleteCall(by, task_list, d, o) ==
    [ListCall("delete_task_list", by, 0, None, task_list.title, 0, o)
        EXCEPT !.tasklist = task_list.id, !.exc = d.exc]

\* the loop of clear_all_task_lists_and_tasks over the fetched lists; outs are
\* the outcomes of the delete requests, in order. [lists, tasks, calls, exc]
RECURSIVE ClearLists(_, _, _, _)
ClearLists(fetched, lists, tasks, outs) ==
    IF fetched = <<>>
    THEN [lists |-> lists, tasks |-> tasks, calls |-> <<>>, exc |-> ""]
    ELSE LET d == delete_task_list(lists, tasks, Head(fetched).id, Head(outs))
             call == DeleteCall("clear", Head(fetched), d, Head(outs))
             rest == ClearLists(Tail(fetched), d.lists, d.tasks, Tail(outs))
         IN  IF d.exc # ""
             THEN [lists |-> d.lists, tasks |-> d.tasks, calls |-> <<call>>, exc |-> d.exc]
             ELSE [rest EXCEPT !.calls = <<call>> \o @]

\* a clearing that deletes the first fetched list only
clear_first_task_list(lists, tasks, o, outs) ==
    LET fetched == get_task_lists(lists, o)
        fetch == ListCall("get_task_lists", "clear", 0, None, None, Len(fetched), o)
        rest == ClearLists(IF fetched = <<>> THEN fetched ELSE <<Head(fetched)>>,
                           lists, tasks, outs)
    IN  IF o = "Exception"
        THEN [lists |-> lists, tasks |-> tasks, calls |-> <<fetch>>, exc |-> "Exception"]
        ELSE [rest EXCEPT !.calls = <<fetch>> \o @]

\* clear_all_task_lists_and_tasks: fetch the lists, delete each; o is the
\* outcome of the fetch. [lists, tasks, calls, exc]
clear_all_task_lists_and_tasks(lists, tasks, o, outs) ==
    LET fetched == get_task_lists(lists, o)
        fetch == ListCall("get_task_lists", "clear", 0, None, None, Len(fetched), o)
        rest == ClearLists(fetched, lists, tasks, outs)
    IN  IF o = "Exception"
        THEN [lists |-> lists, tasks |-> tasks, calls |-> <<fetch>>, exc |-> "Exception"]
        ELSE [rest EXCEPT !.calls = <<fetch>> \o @]

\* the paths the arguments resolved to, from the log
ArgsOf(l) == CHOOSE e \in {l[i] : i \in DOMAIN l} : e.op = "args"

ResolvedPaths(l) == ResolvePaths(ArgsOf(l).title, ArgsOf(l).notes, ArgsOf(l).item)

migrationLocals == <<google_task_lists_cache, default_google_list_cache,
                     migrated_project_task_ids, areas, standalone_tasks_to_migrate,
                     phaseLocals>>

CliDbPaths == {NoPath, "cli.sqlite", "gone.sqlite"}

CliCredsPaths == {NoPath, "cli.json", "gone.json"}

ConfigFiles == {NoPath, "gone.py", "config.py", "partial.py", "empty.py"}

Answers == {"y", "Y", "n", "", "yes"}

\* argument parsing, configuration resolution, path validation
ParseArgs ==
    /\ pc = "start"
    /\ \E cli_db_path \in CliDbPaths, cli_creds_path \in CliCredsPaths,
          config_file \in ConfigFiles :
         LET r == ResolvePaths(cli_db_path, cli_creds_path, config_file)
             line == ArgsLine(cli_db_path, cli_creds_path, config_file)
         IN  IF r.status = 0
             THEN log' = Append(log, line) /\ pc' = "open_reader"
             ELSE log' = log \o <<line, ExitLine(1)>> /\ pc' = "exited"
    /\ UNCHANGED <<db, tasklists, gtasks, fails, closed, migrationLocals>>

\* things_reader = ThingsReader(db_path): n is the number of views created
\* before the constructor returned or raised
OpenReader ==
    /\ pc = "open_reader"
    /\ \E r \in {"ok", "FileNotFoundError", "Exception"}, n \in 0..Len(ReaderViews) :
         /\ r = "ok" => n = Len(ReaderViews)
         /\ r = "FileNotFoundError" => n = 0
         /\ fails' = fails + Cost(r)
         /\ fails' <= MaxFail
         /\ db' = CreateViews(db, n)
         /\ IF r = "ok"
            THEN /\ log' = Append(log, ReaderLine(ResolvedPaths(log).db_path, ""))
                 /\ pc' = "build_client"
            ELSE /\ log' = log \o <<ReaderLine(ResolvedPaths(log).db_path, r), ExitLine(1)>>
                 /\ pc' = "exited"
    /\ UNCHANGED <<tasklists, gtasks, closed, migrationLocals>>

\* google_tasks_client = GoogleTasksClient(credentials_path)
BuildClient ==
    /\ pc = "build_client"
    /\ \E r \in {"ok", "FileNotFoundError", "Exception"} :
         /\ fails' = fails + Cost(r)
         /\ fails' <= MaxFail
         /\ IF r = "ok"
            THEN /\ log' = Append(log, ClientLine(ResolvedPaths(log).creds_path, ""))
                 /\ pc' = "clean_slate"
            ELSE /\ log' = log \o <<ClientLine(ResolvedPaths(log).creds_path, r), ExitLine(1)>>
                 /\ pc' = "exited"
    /\ UNCHANGED <<db, tasklists, gtasks, closed, migrationLocals>>

\* a refusal that leaves without closing the reader
DeclineExit_NoClose(c) == [closed |-> c, status |-> 0]

\* what the refused clean slate does: close the reader, sys.exit(0)
DeclineExit(c) == [closed |-> c + 1, status |-> 0]

\* the clean-slate operation, up to "Starting Migration"
CleanSlate ==
    /\ pc = "clean_slate"
    /\ \E clean_slate \in BOOLEAN, confirm \in Answers, o0, o1, o2 \in Outcomes :
         LET c == clear_all_task_lists_and_tasks(tasklists, gtasks, o0, <<o1, o2>>)
             asked == CleanSlateLine(clean_slate, confirm)
             n == Len(c.calls)
         IN  CASE ~clean_slate ->
                    /\ confirm = ""
                    /\ Charged(<<o0, o1, o2>>, <<FALSE, FALSE, FALSE>>)
                    /\ log' = Append(log, asked)
                    /\ pc' = "get_areas"
                    /\ UNCHANGED <<tasklists, gtasks, closed>>
               [] clean_slate /\ ~Confirmed(confirm) ->
                    /\ Charged(<<o0, o1, o2>>, <<FALSE, FALSE, FALSE>>)
                    /\ log' = log \o <<asked, ExitLine(DeclineExit(closed).status)>>
                    /\ closed' = DeclineExit(closed).closed
                    /\ pc' = "exited"
                    /\ UNCHANGED <<tasklists, gtasks>>
               [] OTHER ->
                    /\ Charged(<<o0, o1, o2>>, <<TRUE, n >= 2, n >= 3>>)
                    /\ tasklists' = c.lists
                    /\ gtasks' = c.tasks
                    /\ IF c.exc # ""
                       THEN /\ log' = log \o <<asked>> \o c.calls \o <<ExitLine(1)>>
                            /\ closed' = closed + 1
                            /\ pc' = "exited"
                       ELSE /\ log' = log \o <<asked>> \o c.calls
                            /\ closed' = closed
                            /\ pc' = "get_areas"
    /\ UNCHANGED <<db, migrationLocals>>

----------------------------------------------------------------------------
(* The stores a run starts from *)

AreaRow(uuid, title, trashed) == [uuid |-> uuid, title |-> title, trashed |-> trashed]

Row(uuid, type, title, notes, area, project, heading, dueDate, trashed) ==
    [uuid |-> uuid, type |-> type, title |-> title, notes |-> notes, area |-> area,
     project |-> project, heading |-> heading, dueDate |-> dueDate, trashed |-> trashed]

\* the second Area: another title, the first Area's title, the default list's
\* title, or trashed
SecondAreas == {AreaRow("A2", "Home", 0), AreaRow("A2", "Work", 0),
                AreaRow("A2", DEFAULT_LIST_TITLE, 0), AreaRow("A2", "Home", 1)}

\* the dueDate of Task T1: none, a date text, a malformed text, a timestamp
DueDates == {DbNull, DbText("2024-08-15"), DbText("not-a-date"), DbNumber("745372800")}

\* Areas A1 "Work" and A2; Project P1 with Headings H1 (Tasks T1, T2) and H2
\* and the direct Task T3; Project P2 in A1; a trashed Task T4 of P1; the
\* standalone Tasks T5 (no Area) and T6 (in A1)
Store(a2, p1area, t1project, due1) ==
    [areas |-> <<AreaRow("A1", "Work", 0), a2>>,
     tasks |-> <<
        Row("P1", TypeProject, "Launch", "Project notes", p1area, None, None, DbNull, 0),
        Row("H1", TypeHeading, "Prep", None, None, "P1", None, DbNull, 0),
        Row("T1", TypeTask, "Write docs", "Get quotes", None, t1project, "H1", due1, 0),
        Row("T2", TypeTask, "Review docs", "", None, "P1", "H1", DbNull, 0),
        Row("H2", TypeHeading, "Ship", None, None, "P1", None, DbNull, 0),
        Row("T3", TypeTask, "Order paint", "Blue color", None, "P1", None, DbNull, 0),
        Row("T4", TypeTask, "Old task", None, None, "P1", None, DbNull, 1),
        Row("P2", TypeProject, "Someday", None, "A1", None, None, DbNull, 0),
        Row("T5", TypeTask, "Buy milk", "", None, None, None, DbText("tomorrow"), 0),
        Row("T6", TypeTask, "Call Bob", None, "A1", None, None, DbNull, 0) >>,
     views |-> {ReaderViews[i] : i \in DOMAIN ReaderViews}]

Stores ==
    { Store(a2, p1area, t1project, due1) :
        a2 \in SecondAreas, p1area \in {None, "A2"}, t1project \in {None, "P1"},
        due1 \in DueDates }

\* the account's task lists when the migration starts
InitialLists == { <<>> }

Init ==
    /\ db \in Stores
    /\ tasklists \in InitialLists
    /\ gtasks = <<>>
    /\ log = <<>>
    /\ fails = 0
    /\ closed = 0
    /\ pc = "get_areas"
    /\ google_task_lists_cache = [u \in {} |-> NoList]
    /\ default_google_list_cache = NoList
    /\ migrated_project_task_ids = {}
    /\ areas = <<>>
    /\ projects = <<>>
    /\ headings = <<>>
    /\ tasks_under_heading = <<>>
    /\ project_direct_tasks = <<>>
    /\ standalone_tasks_to_migrate = <<>>
    /\ target_list_id = 0
    /\ g_project_task = 0
    /\ g_heading_task = 0

Next ==
    \/ GetAreas \/ MigrateArea \/ AreasDone
    \/ GetProjects \/ MigrateProject \/ ProjectsDone
    \/ GetHeadings \/ MigrateHeading \/ HeadingsDone
    \/ GetHeadingTasks \/ MigrateHeadingTask \/ HeadingTasksDone
    \/ GetDirectTasks \/ MigrateDirectTask \/ DirectTasksDone
    \/ GetTasks \/ MigrateStandaloneTask \/ StandaloneDone
    \/ Cleanup

Spec == Init /\ [][Next]_vars

\* main() is sequential code that runs to its end: a step that can be taken is
\* taken
\* the runs from the stores that differ in Task T1 only
InitFair ==
    /\ Init
    /\ db \in { Store(AreaRow("A2", "Home", 0), None, t1project, due1) :
                  t1project \in {None, "P1"}, due1 \in {DbNull, DbText("2024-08-15")} }

FairSpec == InitFair /\ [][Next]_vars /\ WF_vars(Next)

(* The whole of main(), from the command line *)

\* the store of the end-to-end scenario: Area "Work" with Project "Launch",
\* its Heading "Prep" with the Task "Write docs", and the standalone Task
\* "Buy milk"; the views are there when an earlier run created them
Scenario(t1project, views, more) ==
    [areas |-> <<AreaRow("A1", "Work", 0)>>,
     tasks |-> <<
        Row("P1", TypeProject, "Launch", "Project notes", "A1", None, None, DbNull, 0),
        Row("H1", TypeHeading, "Prep", None, None, "P1", None, DbNull, 0),
        Row("T1", TypeTask, "Write docs", "Get quotes", None, t1project, "H1", DbNull, 0),
        Row("T5", TypeTask, "Buy milk", "", None, None, None, DbNull, 0) >> \o more,
     views |-> views]

\* a Task placed directly in the Project, for the runs beyond the scenario
DirectRow == Row("T2", TypeTask, "Ship it", None, None, "P1", None, DbNull, 0)

AllViews == {ReaderViews[i] : i \in DOMAIN ReaderViews}

ScenarioStores == { Scenario(t1project, views, <<>>) :
                      t1project \in {None, "P1"}, views \in {{}, AllViews} }

\* the account when the run starts: nothing, or two lists and a task
InitialDestinations ==
    { [lists |-> <<>>, tasks |-> <<>>],
      [lists |-> <<[id |-> 1, title |-> "Old"], [id |-> 2, title |-> "Work"]>>,
       tasks |-> <<[id |-> 1, tasklist |-> 1, title |-> "Old task", notes |-> None,
                    due |-> None, parent |-> 0]>>] }

InitMain ==
    /\ db \in ScenarioStores \cup {Scenario("P1", AllViews, <<DirectRow>>)}
    /\ \E d \in InitialDestinations : tasklists = d.lists /\ gtasks = d.tasks
    /\ log = <<>>
    /\ fails = 0
    /\ closed = 0
    /\ pc = "start"
    /\ google_task_lists_cache = [u \in {} |-> NoList]
    /\ default_google_list_cache = NoList
    /\ migrated_project_task_ids = {}
    /\ areas = <<>>
    /\ projects = <<>>
    /\ headings = <<>>
    /\ tasks_under_heading = <<>>
    /\ project_direct_tasks = <<>>
    /\ standalone_tasks_to_migrate = <<>>
    /\ target_list_id = 0
    /\ g_project_task = 0
    /\ g_heading_task = 0

NextMain == ParseArgs \/ OpenReader \/ BuildClient \/ CleanSlate \/ Next

SpecMain == InitMain /\ [][NextMain]_vars

(* Stores in which a Task outlives its Project or its Heading *)

\* Project P1 (trashed or not) with Heading H1 (trashed or not), the Task T1
\* under H1, the direct Task T3, the Task T7 of a Project that is not in the
\* store, and the standalone Task T5
OrphanStore(p1trashed, h1trashed, t1project) ==
    [areas |-> <<AreaRow("A1", "Work", 0)>>,
     tasks |-> <<
        Row("P1", TypeProject, "Launch", "Project notes", "A1", None, None, DbNull, p1trashed),
        Row("H1", TypeHeading, "Prep", None, None, "P1", None, DbNull, h1trashed),
        Row("T1", TypeTask, "Write docs", "Get quotes", None, t1project, "H1", DbNull, 0),
        Row("T3", TypeTask, "Order paint", "Blue color", None, "P1", None, DbNull, 0),
        Row("T7", TypeTask, "Lost", None, None, "P9", None, DbNull, 0),
        Row("T5", TypeTask, "Buy milk", "", None, None, None, DbNull, 0) >>,
     views |-> AllViews]

OrphanStores ==
    { OrphanStore(p1trashed, h1trashed, t1project) :
        p1trashed \in {0, 1}, h1trashed \in {0, 1}, t1project \in {None, "P1"} }

InitOrphans ==
    /\ db \in OrphanStores
    /\ tasklists \in InitialLists
    /\ gtasks = <<>>
    /\ log = <<>>
    /\ fails = 0
    /\ closed = 0
    /\ pc = "get_areas"
    /\ google_task_lists_cache = [u \in {} |-> NoList]
    /\ default_google_list_cache = NoList
    /\ migrated_project_task_ids = {}
    /\ areas = <<>>
    /\ projects = <<>>
    /\ headings = <<>>
    /\ tasks_under_heading = <<>>
    /\ project_direct_tasks = <<>>
    /\ standalone_tasks_to_migrate = <<>>
    /\ target_list_id = 0
    /\ g_project_task = 0
    /\ g_heading_task = 0

SpecOrphans == InitOrphans /\ [][Next]_vars

(* The destination client on its own: its operations called in any order *)

MaxCalls == 3

ListTitles == {"Home"}

ClientDues == {PyNone, PyStr("not-a-date")}

ListIds == {1, 2}

InitClient ==
    /\ db = Scenario("P1", AllViews, <<>>)
    /\ \E d \in InitialDestinations : tasklists = d.lists /\ gtasks = d.tasks
    /\ log = <<>>
    /\ fails = 0
    /\ closed = 0
    /\ pc = "client"
    /\ google_task_lists_cache = [u \in {} |-> NoList]
    /\ default_google_list_cache = NoList
    /\ migrated_project_task_ids = {}
    /\ areas = <<>>
    /\ projects = <<>>
    /\ headings = <<>>
    /\ tasks_under_heading = <<>>
    /\ project_direct_tasks = <<>>
    /\ standalone_tasks_to_migrate = <<>>
    /\ target_list_id = 0
    /\ g_project_task = 0
    /\ g_heading_task = 0

\* a caller of the client that makes one more call
ClientReady(o) ==
    /\ pc = "client"
    /\ Len(log) < MaxCalls
    /\ Charged(<<o, "ok", "ok">>, <<TRUE, FALSE, FALSE>>)
    /\ UNCHANGED <<db, closed, pc, migrationLocals>>

ClientGetTaskLists ==
    \E o \in Outcomes :
        /\ ClientReady(o)
        /\ log' = Append(log, ListCall("get_task_lists", "client", 0, None, None,
                                       Len(get_task_lists(tasklists, o)), o))
        /\ UNCHANGED <<tasklists, gtasks>>

ClientCreateTaskList ==
    \E o \in Outcomes, title \in ListTitles :
        LET c == create_task_list(tasklists, title, o)
        IN  /\ ClientReady(o)
            /\ log' = Append(log, ListCall("create_task_list", "client", 0, None, title,
                                           IF c.ret = NoList THEN 0 ELSE c.ret.id, o))
            /\ tasklists' = c.lists
            /\ UNCHANGED gtasks

ClientDeleteTaskList ==
    \E o \in Outcomes, task_list_id \in ListIds :
        LET d == delete_task_list(tasklists, gtasks, task_list_id, o)
        IN  /\ ClientReady(o)
            /\ log' = Append(log, DeleteCall("client", [id |-> task_list_id, title |-> None],
                                             d, o))
            /\ tasklists' = d.lists
            /\ gtasks' = d.tasks

ClientCreateTask ==
    \E o \in Outcomes, task_list_id \in ListIds, due \in ClientDues,
       parent \in {0, MaxId(gtasks)} :
        LET c == create_task(gtasks, task_list_id, "Task", None, due, parent, o)
        IN  /\ ClientReady(o)
            /\ log' = Append(log, TaskCall("client", 0, None, task_list_id, "Task", None,
                                           due, parent, c, o))
            /\ gtasks' = c.tasks
            /\ UNCHANGED tasklists

ClientGetTasksInList ==
    \E o \in Outcomes, task_list_id \in ListIds :
        /\ ClientReady(o)
        /\ log' = Append(log, [ListCall("get_tasks_in_list", "client", 0, None, None,
                                        Len(get_tasks_in_list(gtasks, task_list_id, o)), o)
                                  EXCEPT !.tasklist = task_list_id])
        /\ UNCHANGED <<tasklists, gtasks>>

NextClient ==
    \/ ClientGetTaskLists
    \/ ClientCreateTaskList
    \/ ClientDeleteTaskList
    \/ ClientCreateTask
    \/ ClientGetTasksInList

SpecClient == InitClient /\ [][NextClient]_vars

(* Step 1 run twice in sequence: a second process starts against the
   destination the first one left *)

\* the second start of the migration ("Starting Migration" banner), with a
\* fresh google_task_lists_cache
Rerun ==
    /\ pc = "get_projects"
    /\ \A i \in DOMAIN log : log[i].op # "start"
    /\ log' = Append(log, Line("start", 0, ""))
    /\ pc' = "get_areas"
    /\ google_task_lists_cache' = [u \in {} |-> NoList]
    /\ areas' = <<>>
    /\ UNCHANGED <<db, tasklists, gtasks, fails, closed, default_google_list_cache,
                   migrated_project_task_ids, standalone_tasks_to_migrate, phaseLocals>>

NextRerun == GetAreas \/ MigrateArea \/ AreasDone \/ Rerun

SpecRerun == Init /\ [][NextRerun]_vars

----------------------------------------------------------------------------
(* Reading the store and the log *)

Range(f) == {f[i] : i \in DOMAIN f}

RowOf(uuid) == CHOOSE r \in Range(db.tasks) : r.uuid = uuid

IsRow(uuid) == \E r \in Range(db.tasks) : r.uuid = uuid

\* the non-trashed Tasks of the store
LiveTasks == {r \in Range(db.tasks) : r.type = TypeTask /\ r.trashed = 0}

\* a Task that belongs to a Project, directly or via a Heading
BelongsToProject(r) ==
    \/ r.project # None
    \/ r.heading # None /\ IsRow(r.heading) /\ RowOf(r.heading).project # None

ProjectTaskIds == {r.uuid : r \in {x \in LiveTasks : BelongsToProject(x)}}

\* the create_task calls made for a source item, and those that returned a task
CreateCalls(uuid) == {i \in DOMAIN log : log[i].op = "create_task" /\ log[i].item = uuid}

Created(uuid) == {i \in CreateCalls(uuid) : log[i].ret # 0}

Phase2Over == pc \in {"get_tasks", "standalone", "cleanup", "done"}

----------------------------------------------------------------------------
(* C1: no double placement *)

\* C1 as stated: whatever the destination calls do, every non-trashed Task of a
\* Project is in migrated_project_task_ids when Step 2 is over, the sweep makes
\* no call for it, and at the end exactly one RemoteTask was created for it.
C1_ExactlyOnePlacement ==
    \A u \in ProjectTaskIds :
        /\ Phase2Over => u \in migrated_project_task_ids
        /\ \A i \in CreateCalls(u) : log[i].phase # 3
        /\ pc = "done" => Cardinality(Created(u)) = 1

\* C1 amended: whatever the destination calls do, at most one RemoteTask is
\* created for a non-trashed Task of a Project; when Step 2 is over its id is in
\* migrated_project_task_ids exactly if its Step 2 create_task call returned a
\* task, and then the sweep makes no call for it.
C1_AtMostOnePlacement ==
    \A u \in ProjectTaskIds :
        /\ Cardinality(Created(u)) <= 1
        /\ Phase2Over =>
             (u \in migrated_project_task_ids <=> \E i \in Created(u) : log[i].phase = 2)
        /\ u \in migrated_project_task_ids => \A i \in CreateCalls(u) : log[i].phase # 3

\* a finished run in which T1, a Task under Heading H1 with no project of its
\* own, was placed in Step 2 and swept past, while T3 was not placed
C1_Witness ==
    /\ pc = "done"
    /\ RowOf("T1").project = None
    /\ "T1" \in migrated_project_task_ids
    /\ \E i \in DOMAIN log : log[i].by = "standalone"
    /\ "T3" \notin migrated_project_task_ids

----------------------------------------------------------------------------
(* C2: hierarchy shape *)

LiveRows(type) == {r \in Range(db.tasks) : r.type = type /\ r.trashed = 0}

\* the parent ids carried by the create_task calls that created uuid's
\* RemoteTasks, and the ids those calls returned
ParentsOfCreated(uuid) == {log[i].parent : i \in Created(uuid)}

IdsOfCreated(uuid) == {log[i].ret : i \in Created(uuid)}

\* C2: for every Project P with Heading H and Task T under H that were all
\* created, the call that created T carries the id returned for H's placeholder,
\* the call that created H carries the id returned for P, and the call that
\* created P carries no parent; a created Task directly under P carries P's id.
C2_HierarchyShape ==
    \A p \in LiveRows(TypeProject) :
        /\ ParentsOfCreated(p.uuid) \subseteq {0}
        /\ \A h \in LiveRows(TypeHeading) :
             h.project = p.uuid /\ Created(p.uuid) # {} /\ Created(h.uuid) # {} =>
                /\ ParentsOfCreated(h.uuid) \subseteq IdsOfCreated(p.uuid)
                /\ \A t \in LiveTasks :
                     t.heading = h.uuid => ParentsOfCreated(t.uuid) \subseteq IdsOfCreated(h.uuid)
        /\ \A t \in LiveTasks :
             t.project = p.uuid /\ t.heading = None /\ Created(p.uuid) # {} =>
                ParentsOfCreated(t.uuid) \subseteq IdsOfCreated(p.uuid)

----------------------------------------------------------------------------
(* C3: depth of nesting *)

TaskById(id) == CHOOSE t \in Range(gtasks) : t.id = id

\* the subtask depth of a RemoteTask: 0 when it has no parent
RECURSIVE Depth(_)
Depth(t) == IF t.parent = 0 THEN 0 ELSE 1 + Depth(TaskById(t.parent))

\* the place in main() whose create_task call made the RemoteTask
MadeBy(t) == {log[i].by : i \in {j \in DOMAIN log : log[j].op = "create_task" /\ log[j].ret = t.id}}

\* C3 as stated: a RemoteTask that has a parent has a parent with no parent
\* (no RemoteTask is created at subtask depth greater than one).
C3_SingleLevel == \A t \in Range(gtasks) : Depth(t) <= 1

\* C3 amended: the driver nests at most two levels deep. RemoteTasks of
\* Projects and of Step 3 Tasks have no parent; Heading placeholders and Tasks
\* directly under a Project are at depth one; a Task under a Heading is at
\* depth two, under the placeholder under the Project's task; a parent is in
\* its child's list.
C3_AtMostTwoLevels ==
    \A t \in Range(gtasks) :
        /\ MadeBy(t) \subseteq {"project", "standalone"} <=> Depth(t) = 0
        /\ MadeBy(t) \subseteq {"heading", "direct_task"} <=> Depth(t) = 1
        /\ MadeBy(t) = {"heading_task"} <=> Depth(t) = 2
        /\ t.parent # 0 => TaskById(t.parent).tasklist = t.tasklist

\* a finished run that created a Task under a Heading placeholder under a
\* Project's task, and a Task directly under the Project's task
C3_Witness ==
    /\ pc = "done"
    /\ \E t, u \in Range(gtasks) :
         /\ Depth(t) = 2 /\ Depth(TaskById(t.parent)) = 1
         /\ Depth(u) = 1 /\ MadeBy(u) = {"direct_task"}

----------------------------------------------------------------------------
(* C4: the default list *)

\* the calls get_or_create_default_list() made, and its create_task_list calls
DefaultCalls == {i \in DOMAIN log : log[i].by = "default"}

DefaultCreates == {i \in DefaultCalls : log[i].op = "create_task_list"}

\* the create_task calls for the Projects and Step 3 Tasks that fall back: the
\* area is absent or not in google_task_lists_cache
FallbackCalls ==
    {i \in DOMAIN log :
        /\ log[i].op = "create_task"
        /\ log[i].by \in {"project", "standalone"}
        /\ \/ RowOf(log[i].item).area = None
           \/ RowOf(log[i].item).area \notin DOMAIN google_task_lists_cache}

\* C4 as stated: across a run, whatever the outcomes of the lookup and create
\* calls, there is at most one create_task_list call for the default title, and
\* all fallback items that are placed receive the same list id, that of a list
\* titled "Things Imported Tasks".
C4_DefaultCreatedOnce ==
    /\ Cardinality({i \in DOMAIN log : /\ log[i].op = "create_task_list"
                                       /\ log[i].title = DEFAULT_LIST_TITLE}) <= 1
    /\ \A i, j \in FallbackCalls : log[i].tasklist = log[j].tasklist
    /\ \A i \in FallbackCalls :
         \E l \in Range(tasklists) : l.id = log[i].tasklist /\ l.title = DEFAULT_LIST_TITLE

\* C4 amended: get_or_create_default_list() makes at most one create_task_list
\* call that returns a list; once a lookup or a creation has returned a list it
\* makes no further call (a failed creation is not remembered and is tried
\* again for the next fallback item); every create_task call for a fallback
\* item goes to the remembered list, which is titled "Things Imported Tasks".
C4_DefaultMemoized ==
    /\ Cardinality({i \in DefaultCreates : log[i].ret # 0}) <= 1
    /\ \A i, j \in DefaultCalls : i < j => log[i].ret = 0
    /\ \A i \in DefaultCalls : log[i].title = DEFAULT_LIST_TITLE
    /\ \A i \in FallbackCalls :
         /\ default_google_list_cache # NoList
         /\ log[i].tasklist = default_google_list_cache.id
    /\ default_google_list_cache # NoList =>
         /\ default_google_list_cache.title = DEFAULT_LIST_TITLE
         /\ \E l \in Range(tasklists) : l = default_google_list_cache

\* a finished run in which the first creation of the default list failed, a
\* later one succeeded, and fallback items of Step 2 and Step 3 were placed
C4_Witness ==
    /\ pc = "done"
    /\ \E i, j \in DefaultCreates : i < j /\ log[i].ret = 0 /\ log[j].ret # 0
    /\ \E i, j \in FallbackCalls :
         /\ log[i].phase = 2 /\ log[i].ret # 0
         /\ log[j].phase = 3 /\ log[j].ret # 0

----------------------------------------------------------------------------
(* C5: Step 1 run twice *)

\* the run a log entry belongs to
RunOf(i) == IF \E j \in 1..i : log[j].op = "start" THEN 2 ELSE 1

AreaTitle(uuid) == (CHOOSE a \in Range(db.areas) : a.uuid = uuid).title

\* the successful create_task_list calls of a run for a title
ListsCreated(run, title) ==
    {i \in DOMAIN log : /\ log[i].op = "create_task_list" /\ log[i].title = title
                        /\ log[i].ret # 0 /\ RunOf(i) = run}

\* C5: Step 1 run twice against the same destination creates at most one
\* list per Area title, whatever the outcomes of the fetch and create calls; in
\* the second run the lookup of a title the first run created returns that
\* list and create_task_list is not called for the Area.
C5_IdempotentLists ==
    \A i \in DOMAIN log :
        /\ log[i].op = "create_task_list" /\ log[i].ret # 0 =>
             Cardinality(ListsCreated(1, log[i].title) \cup ListsCreated(2, log[i].title)) = 1
        /\ log[i].by = "area" /\ RunOf(i) = 2 /\ ListsCreated(1, log[i].title) # {} =>
             /\ log[i].op = "get_task_list_by_title"
             /\ \E j \in ListsCreated(1, log[i].title) : log[j].ret = log[i].ret

----------------------------------------------------------------------------
(* C6: Areas and task lists *)

LiveAreas == {a.uuid : a \in {x \in Range(db.areas) : x.trashed = 0}}

Step1Over == pc \notin {"get_areas", "areas"}

----------------------------------------------------------------------------
(* C7: standalone Tasks *)

\* the list Step 3 resolves for a Task: the Area's list, else the default list
Step3ListId(t) ==
    IF t.area # None /\ t.area \in DOMAIN google_task_lists_cache
    THEN google_task_lists_cache[t.area].id
    ELSE default_google_list_cache.id

\* C7: in a run in which no call fails, every non-trashed Task with no owning
\* Project that Step 2 did not place is created in Step 3 with no parent, in
\* its Area's list when the Area is in google_task_lists_cache and otherwise
\* in the default list; no Step 3 create_task call carries a parent id.
C7_StandalonePlacement ==
    /\ \A i \in DOMAIN log : log[i].phase = 3 /\ log[i].op = "create_task" => log[i].parent = 0
    /\ pc = "done" /\ fails = 0 =>
         \A t \in LiveTasks :
            t.project = None /\ t.uuid \notin migrated_project_task_ids =>
               \E i \in Created(t.uuid) :
                  /\ log[i].phase = 3
                  /\ log[i].parent = 0
                  /\ log[i].tasklist = Step3ListId(t)

----------------------------------------------------------------------------
(* C8: due dates that are not well-formed date text *)

CreateTaskCalls == {i \in DOMAIN log : log[i].op = "create_task"}

\* C8: a create_task call whose due-date value is present and is not a
\* well-formed YYYY-MM-DD text (malformed text, or the datetime or number the
\* reader's dueDate field yields) still issues the insert, with title and notes
\* unchanged and no due field, returns normally, and the step goes on.
C8_GracefulDueDate ==
    \A i \in CreateTaskCalls :
        DueConversion(log[i].due) \in {"ValueError", "TypeError"} =>
           /\ log[i].exc = ""
           /\ log[i].outcome # "none"
           /\ i + 1 \in DOMAIN log => log[i + 1].op # "error"
           /\ log[i].ret # 0 =>
                \E t \in Range(gtasks) :
                   /\ t.id = log[i].ret
                   /\ t.title = log[i].title
                   /\ t.notes = TaskNotes(log[i].notes)
                   /\ t.due = None

----------------------------------------------------------------------------
(* C9: containment of a failed call *)

\* the destination-client calls in the log
DestinationCalls == {i \in DOMAIN log : log[i].by \notin {"main", "reader"}}

PhaseOver(phase) ==
    CASE phase = 1 -> Step1Over
      [] phase = 2 -> Phase2Over
      [] OTHER -> pc \in {"cleanup", "done"}

Uuids(seq) == [k \in DOMAIN seq |-> seq[k].uuid]

\* the items of the loop that made the call log[i], in the loop's order
LevelItems(i) ==
    CASE log[i].by = "area" -> Uuids(get_areas(db))
      [] log[i].by = "project" \/ (log[i].by = "default" /\ log[i].phase = 2) ->
           Uuids(get_projects(db))
      [] log[i].by = "heading" ->
           Uuids(get_headings_for_project(db, RowOf(log[i].item).project))
      [] log[i].by = "heading_task" ->
           Uuids(get_tasks_for_heading(db, RowOf(log[i].item).heading))
      [] log[i].by = "direct_task" ->
           Uuids(get_tasks_for_project(db, RowOf(log[i].item).project))
      [] OTHER ->
           Uuids(SelectSeq(get_tasks(db),
                           LAMBDA t : StandaloneFilter(t, migrated_project_task_ids)))

\* the siblings that come after the item of log[i] in its loop
LaterSiblings(i) ==
    LET items == LevelItems(i)
    IN  {items[m] : m \in {n \in DOMAIN items :
                             \E k \in 1..(n - 1) : items[k] = log[i].item}}

\* a call was made for the item after log[i], in the same step
AttemptedAfter(i, uuid) ==
    \E j \in DOMAIN log : j > i /\ log[j].item = uuid /\ log[j].phase = log[i].phase

AbandonedAfter(i) ==
    \E j \in DOMAIN log : j > i /\ log[j].op = "error" /\ log[j].phase = log[i].phase

\* C9 as stated: whatever the kind of failure of a destination call made for
\* an item, no exception leaves the call, and once the step is over every later
\* sibling of the item has been attempted in it.
C9_AllFailuresContained ==
    \A i \in DestinationCalls :
        /\ log[i].exc = ""
        /\ log[i].outcome # "ok" /\ PhaseOver(log[i].phase) =>
             \A u \in LaterSiblings(i) : AttemptedAfter(i, u)

\* C9 amended: an HttpError of a destination request is turned into a failed
\* result at that call and the step's except clause does not run for it; once
\* the step is over every later sibling of the item has been attempted, unless
\* the step was abandoned later. A step is abandoned only by a call that
\* raised: a destination call that fails with any other exception (the
\* TypeError of a non-text due date included) or a call of the source reader.
C9_HttpErrorContained ==
    /\ \A i \in DestinationCalls :
         log[i].outcome = "HttpError" =>
            /\ log[i].exc = ""
            /\ log[i].ret = 0
            /\ i + 1 \in DOMAIN log => log[i + 1].op # "error"
            /\ PhaseOver(log[i].phase) /\ ~AbandonedAfter(i) =>
                 \A u \in LaterSiblings(i) : AttemptedAfter(i, u)
    /\ \A i \in DestinationCalls :
         log[i].exc # "" =>
            /\ log[i].outcome \in {"Exception", "none"}
            /\ i + 1 \in DOMAIN log
            /\ log[i + 1].op = "error" /\ log[i + 1].phase = log[i].phase
    /\ \A i \in DOMAIN log :
         log[i].op = "error" =>
            /\ i > 1
            /\ log[i - 1].op # "error"
            /\ log[i - 1].exc # "" /\ log[i - 1].exc = log[i].exc
            /\ log[i - 1].phase = log[i].phase

\* a finished run in which the create_task call for T1 ended in an HttpError,
\* its sibling T2 was created after it, and a later call raised
C9_Witness ==
    /\ pc = "done"
    /\ \E i, j, k \in DestinationCalls :
         /\ i < j /\ j < k
         /\ log[i].item = "T1" /\ log[i].by = "heading_task" /\ log[i].outcome = "HttpError"
         /\ log[j].item = "T2" /\ log[j].ret # 0
         /\ log[k].exc = "Exception"

----------------------------------------------------------------------------
(* C10: the steps are independent *)

\* the except clause of a step has run
ErrorIn(phase) == \E i \in DOMAIN log : log[i].op = "error" /\ log[i].phase = phase

\* after the error of a step, every later step (4: the cleanup) printed its
\* banner, and the reader was closed, once
FinishedAfterError(phase) ==
    /\ pc = "done"
    /\ closed = 1
    /\ \A m \in (phase + 1)..4 :
         \E i, j \in DOMAIN log :
            /\ i < j
            /\ log[i].op = "error" /\ log[i].phase = phase
            /\ log[j].op = "step" /\ log[j].phase = m

\* C10: when Step 1, 2 or 3 is abandoned because of an error, every later
\* step still starts and the run reaches the final cleanup, which closes the
\* source reader.
C10_PhaseIndependence ==
    \A phase \in 1..3 : ErrorIn(phase) ~> FinishedAfterError(phase)

\* a finished run in which all three steps were abandoned
C10_Witness ==
    /\ ErrorIn(1) /\ ErrorIn(2) /\ ErrorIn(3)
    /\ FinishedAfterError(1) /\ FinishedAfterError(2) /\ FinishedAfterError(3)

----------------------------------------------------------------------------
(* C11 *)

LogSet == {log[i] : i \in DOMAIN log}

\* the run is over: main() returned or sys.exit was called
Ended == pc \in {"done", "exited"}

ReaderOpened == \E e \in LogSet : e.op = "ThingsReader" /\ e.exc = ""

ClientBuilt == \E e \in LogSet : e.op = "GoogleTasksClient" /\ e.exc = ""

ExitStatus == (CHOOSE e \in LogSet : e.op = "exit").ret

\* C11: on every way out of the run after the source reader was opened
\* (normal completion, client construction failure, clean-slate error, user
\* decline) the reader has been closed exactly once.
C11_GuaranteedRelease == (Ended /\ ReaderOpened) => closed = 1

----------------------------------------------------------------------------
(* C12 *)

\* the clean-slate question was asked and the answer was not 'y' or 'Y'
Declined == \E e \in LogSet : e.op = "clean_slate" /\ e.ret = 1 /\ e.title \notin {"y", "Y"}

\* C12: when the clean-slate flag is set and the user answers anything other
\* than 'y' or 'Y', the run makes no delete and no create call on the
\* destination (the account is as it was), closes the source reader once and
\* exits with status 0.
C12_DeclinedCleanSlate ==
    Declined =>
        /\ pc = "exited"
        /\ DestinationCalls = {}
        /\ \E d \in InitialDestinations : tasklists = d.lists /\ gtasks = d.tasks
        /\ closed = 1
        /\ ExitStatus = 0

C12_Witness == Declined /\ Ended /\ tasklists # <<>> /\ closed = 1

----------------------------------------------------------------------------
(* C13 *)

DeleteCalls == {i \in DOMAIN log : log[i].op = "delete_task_list"}

\* the destination calls of the migration steps
MigrationCalls == {i \in DestinationCalls : log[i].by # "clear"}

\* before entry i, the flag was set and the question answered 'y' or 'Y'
AffirmedBefore(i) ==
    \E j \in 1..(i - 1) :
        log[j].op = "clean_slate" /\ log[j].ret = 1 /\ log[j].title \in {"y", "Y"}

StartupPcs == {"start", "open_reader", "build_client", "clean_slate"}

IsPrefix(a, b) == Len(a) <= Len(b) /\ SubSeq(b, 1, Len(a)) = a

DeletesGated ==
    \A i \in DeleteCalls :
        /\ AffirmedBefore(i)
        /\ \A j \in MigrationCalls : i < j

\* C13: a delete call is issued only if the clean-slate flag was set and the
\* user confirmed; every delete call precedes the first list lookup or create
\* call of the migration; and a step of the migration phases deletes and
\* updates nothing: the lists and tasks of the account stay as they are, new
\* ones are only added after them.
C13_DeletionGated ==
    [][ /\ DeletesGated'
        /\ pc \notin StartupPcs =>
             IsPrefix(tasklists, tasklists') /\ IsPrefix(gtasks, gtasks') ]_vars

C13_Witness ==
    \E i \in DeleteCalls : \E j \in MigrationCalls :
        /\ log[i].outcome = "ok"
        /\ log[j].op = "create_task"
        /\ log[j].ret # 0

----------------------------------------------------------------------------
(* C14 *)

\* a path the run needs is missing or names no file
PathsUnusable ==
    /\ \E e \in LogSet : e.op = "args"
    /\ LET db_path == ResolvedPaths(log).db_path
           creds_path == ResolvedPaths(log).creds_path
       IN  \/ db_path = NoPath
           \/ creds_path = NoPath
           \/ ~exists(db_path)
           \/ ~exists(creds_path)

ConstructionFailed ==
    \E e \in LogSet : e.op \in {"ThingsReader", "GoogleTasksClient"} /\ e.exc # ""

StepLines == {i \in DOMAIN log : log[i].op \in {"step", "error"}}

\* C14: if the source store path or the credentials path is missing or does
\* not exist, or the source reader or the destination client cannot be
\* constructed, the run makes no destination call, executes no migration
\* phase and exits with a non-zero status; and the destination client is
\* constructed only after the source store was found and the reader constructed.
C14_FatalStartup ==
    /\ (PathsUnusable \/ ConstructionFailed) =>
          /\ pc = "exited"
          /\ ExitStatus # 0
          /\ DestinationCalls = {}
          /\ StepLines = {}
          /\ \E d \in InitialDestinations : tasklists = d.lists /\ gtasks = d.tasks
    /\ \A i \in DOMAIN log :
          log[i].op = "GoogleTasksClient" =>
              \E j \in 1..(i - 1) :
                  log[j].op = "ThingsReader" /\ log[j].exc = "" /\ exists(log[j].title)

C14_Witness ==
    /\ \E e \in LogSet : e.op = "GoogleTasksClient" /\ e.exc # ""
    /\ Ended
    /\ tasklists # <<>>

----------------------------------------------------------------------------
(* C15 *)

\* C15: from the construction of the source reader until it is closed no
\* step writes to the source store, data or schema: the store's contents and
\* schema (its rows and its views) after a run equal those before it.
C15_SourceReadOnly == [][db' = db]_vars

----------------------------------------------------------------------------
(* C16 *)

\* the create_task call that returned id succeeded before entry i
ReturnedBefore(id, i) ==
    \E j \in 1..(i - 1) :
        /\ log[j].op = "create_task"
        /\ log[j].ret = id
        /\ log[j].outcome = "ok"
        /\ log[j].exc = ""

CreationOrder ==
    \A i \in CreateTaskCalls :
        /\ log[i].parent # 0 => ReturnedBefore(log[i].parent, i)
        /\ log[i].phase = 3 =>
              /\ Phase2Over
              /\ \A j \in DOMAIN log : log[j].phase = 2 => j < i

\* C16: every create_task call that carries a parent id is issued after the
\* create_task call that returned that id succeeded; no Phase 3 create_task
\* call is issued before Phase 2 has finished (completed or been abandoned);
\* and once Phase 2 has finished the set of placed ids no longer changes.
C16_CreationOrder ==
    [][ /\ CreationOrder'
        /\ Phase2Over => migrated_project_task_ids' = migrated_project_task_ids ]_vars

C16_Witness ==
    /\ \E i \in CreateTaskCalls : \E j \in CreateTaskCalls :
          /\ log[i].parent # 0
          /\ log[j].ret = log[i].parent
          /\ log[j].parent # 0
    /\ \E i \in CreateTaskCalls : log[i].phase = 3 /\ log[i].ret # 0
    /\ migrated_project_task_ids # {}

----------------------------------------------------------------------------
(* C17 *)

\* the Projects, Headings and Tasks of the store
Items == {r.uuid : r \in Range(db.tasks)}

ItemsOfType(type) == {r \in Range(db.tasks) : r.type = type}

OneCreatePerItem == \A u \in Items : Cardinality(CreateCalls(u)) <= 1

\* two list calls per Area; per Project two list calls and a create_task;
\* one create_task per Heading; per Task one create_task in Phase 2, two list
\* calls and a create_task in Phase 3
LinearlyBounded ==
    Cardinality(DestinationCalls) <=
        2 * Len(db.areas) + 3 * Cardinality(ItemsOfType(TypeProject))
        + Cardinality(ItemsOfType(TypeHeading)) + 4 * Cardinality(ItemsOfType(TypeTask))

\* C17: for every source content and every pattern of destination-call
\* failures the run terminates, having issued at most one create_task call per
\* source Project, Heading and Task and a number of destination calls bounded
\* linearly in areas + projects + headings + tasks.
C17_Termination == <>(pc = "done") /\ [](OneCreatePerItem /\ LinearlyBounded)

----------------------------------------------------------------------------
(* C18 *)

\* the account was empty when the run started: nothing was deleted and every
\* list and every task in it was made by a call of the run
InitiallyEmpty ==
    /\ \A i \in DeleteCalls : log[i].outcome # "ok"
    /\ \A l \in Range(tasklists) :
          \E i \in DOMAIN log : log[i].op = "create_task_list" /\ log[i].ret = l.id
    /\ \A t \in Range(gtasks) :
          \E i \in DOMAIN log : log[i].op = "create_task" /\ log[i].ret = t.id

ListTitled(title) == CHOOSE l \in Range(tasklists) : l.title = title

\* the RemoteTask created for the source item uuid
RemoteOf(uuid) == TaskById(log[CHOOSE i \in Created(uuid) : TRUE].ret)

\* C18: with Area "Work" holding Project "Launch" with Heading "Prep" and its
\* Task "Write docs", plus the standalone Task "Buy milk" with no Area, an
\* initially empty destination and no failing call, the finished run has
\* created exactly two lists ("Work" and "Things Imported Tasks") and exactly
\* four RemoteTasks: "Launch" top-level in "Work", the Heading under
\* "Launch", "Write docs" under the Heading, "Buy milk" top-level in the
\* default list; nothing else.
C18_EndToEnd ==
    (pc = "done" /\ db \in ScenarioStores /\ fails = 0 /\ InitiallyEmpty) =>
        /\ Len(tasklists) = 2
        /\ {l.title : l \in Range(tasklists)} = {"Work", DEFAULT_LIST_TITLE}
        /\ Len(gtasks) = 4
        /\ \A u \in {"P1", "H1", "T1", "T5"} : Cardinality(Created(u)) = 1
        /\ RemoteOf("P1").title = "Launch"
        /\ RemoteOf("P1").parent = 0
        /\ RemoteOf("P1").tasklist = ListTitled("Work").id
        /\ RemoteOf("H1").parent = RemoteOf("P1").id
        /\ RemoteOf("H1").tasklist = ListTitled("Work").id
        /\ RemoteOf("T1").title = "Write docs"
        /\ RemoteOf("T1").parent = RemoteOf("H1").id
        /\ RemoteOf("T1").tasklist = ListTitled("Work").id
        /\ RemoteOf("T5").title = "Buy milk"
        /\ RemoteOf("T5").parent = 0
        /\ RemoteOf("T5").tasklist = ListTitled(DEFAULT_LIST_TITLE).id

C18_Witness ==
    /\ pc = "done" /\ db \in ScenarioStores /\ fails = 0 /\ InitiallyEmpty
    /\ RowOf("T1").project = None
    /\ Len(gtasks) = 4

----------------------------------------------------------------------------
(* C19 *)

ClientOperations == {"get_task_lists", "create_task_list", "delete_task_list",
                     "create_task", "get_tasks_in_list"}

\* C19: for each operation of the destination client (list all lists, create
\* list, delete list, create task, list tasks in a list) an error of the
\* remote service (HttpError) raised during the call is caught inside the
\* operation and reported as a failed result (none, or an empty list for the
\* list operations); it never propagates to the caller.
C19_ClientFailurePolicy ==
    \A i \in DOMAIN log :
        (log[i].op \in ClientOperations /\ log[i].outcome = "HttpError") =>
            log[i].exc = "" /\ log[i].ret = 0

C19_Witness ==
    /\ \E i \in DOMAIN log : log[i].op = "delete_task_list" /\ log[i].outcome = "HttpError"
    /\ \E i \in DOMAIN log : log[i].op = "get_tasks_in_list" /\ log[i].outcome = "HttpError"
    /\ \E i \in DOMAIN log : log[i].op = "create_task" /\ log[i].ret # 0
    /\ tasklists # <<>>

----------------------------------------------------------------------------
(* C20 *)

\* the entry of the list fetch clear_all_task_lists_and_tasks made
ClearFetch(l) == CHOOSE k \in DOMAIN l : l[k].op = "get_task_lists" /\ l[k].by = "clear"

\* the step is a call of clear_all_task_lists_and_tasks
ClearStep == pc = "clean_slate" /\ \E k \in DOMAIN log' : log'[k].by = "clear"

\* the lists the fetch of this step returned
Fetched == get_task_lists(tasklists, log'[ClearFetch(log')].outcome)

\* the number of delete calls of this step
Deletes == Cardinality({i \in DOMAIN log' : log'[i].op = "delete_task_list"})

\* the delete calls follow the fetch, one per fetched list, in order
DeletesInOrder ==
    \A j \in 1..Deletes :
        /\ log'[ClearFetch(log') + j].op = "delete_task_list"
        /\ log'[ClearFetch(log') + j].tasklist = Fetched[j].id

\* C20 as stated: clear_all_task_lists_and_tasks issues exactly one delete
\* call for each list the fetch returned, none when it returned none; a
\* deletion that failed does not keep the remaining lists from being attempted.
C20_OneDeletePerList ==
    [][ClearStep => (Deletes = Len(Fetched) /\ DeletesInOrder)]_vars

\* C20 amended: one delete call per fetched list, in the fetch's order, none
\* when the fetch returned none; a deletion that fails with HttpError is
\* followed by the attempt for the next list; the calls stop short only where
\* a delete call raised another exception, which leaves the operation.
C20_DeletesUntilException ==
    [][ClearStep =>
          /\ Deletes <= Len(Fetched)
          /\ DeletesInOrder
          /\ \A j \in 1..Deletes :
                (log'[ClearFetch(log') + j].exc = "" /\ j < Len(Fetched)) => j < Deletes
          /\ Deletes < Len(Fetched) =>
                (Deletes > 0 /\ log'[ClearFetch(log') + Deletes].exc # "") ]_vars

C20_Witness ==
    \E i \in DeleteCalls : \E j \in DeleteCalls :
        /\ i < j
        /\ log[i].outcome = "HttpError"
        /\ log[j].outcome = "ok"

----------------------------------------------------------------------------
(* C21 *)

\* the value the command line gives for a path, else the config file's
Chosen(cli_value, config_file, key) ==
    IF cli_value # NoPath THEN cli_value
    ELSE Get(load_config(config_file).settings, key)

Constructions == {i \in DOMAIN log : log[i].op \in {"ThingsReader", "GoogleTasksClient"}}

----------------------------------------------------------------------------
(* C22 *)

\* the Step 1 calls for an Area whose lookup found no list and whose
\* creation returned none
FailedAreaCalls ==
    {i \in DOMAIN log : /\ log[i].op = "create_task_list"
                        /\ log[i].by = "area"
                        /\ log[i].exc = ""
                        /\ log[i].ret = 0}

\* the create_task calls for the Projects and standalone Tasks of an Area
OwnedCreates(area_uuid) ==
    {j \in CreateTaskCalls : /\ log[j].by \in {"project", "standalone"}
                             /\ IsRow(log[j].item)
                             /\ RowOf(log[j].item).area = area_uuid}

\* C22: when neither the lookup nor the creation yields a list for an Area in
\* Step 1, the Area's id is not in the list cache, Step 1 goes on with the
\* next Area, and every Project and standalone Task of that Area is resolved
\* to the default list: its create_task call is made in the memoized list
\* titled "Things Imported Tasks".
C22_AreaFallsThrough ==
    \A i \in FailedAreaCalls :
        /\ log[i].item \notin DOMAIN google_task_lists_cache
        /\ Step1Over =>
              \A n \in DOMAIN LevelItems(i) :
                  (n > 1 /\ LevelItems(i)[n - 1] = log[i].item) =>
                      AttemptedAfter(i, LevelItems(i)[n])
        /\ \A j \in OwnedCreates(log[i].item) :
              /\ default_google_list_cache # NoList
              /\ default_google_list_cache.title = DEFAULT_LIST_TITLE
              /\ log[j].tasklist = default_google_list_cache.id

C22_Witness ==
    \E i \in FailedAreaCalls :
        /\ DOMAIN google_task_lists_cache # {}
        /\ \E j \in OwnedCreates(log[i].item) : log[j].by = "project" /\ log[j].ret # 0
        /\ \E j \in OwnedCreates(log[i].item) : log[j].by = "standalone" /\ log[j].ret # 0

----------------------------------------------------------------------------
(* C23 *)

\* the Step 2 calls after which a Project is skipped: its default list could
\* not be obtained, or its create_task call returned none
SkippedProjectCalls ==
    {i \in DOMAIN log :
        /\ log[i].phase = 2
        /\ log[i].exc = ""
        /\ log[i].ret = 0
        /\ \/ log[i].op = "create_task" /\ log[i].by = "project"
           \/ log[i].op = "create_task_list" /\ log[i].by = "default"}

\* the Headings and Tasks of a Project, Tasks under its Headings included
ItemsOfProject(project_uuid) ==
    {r \in Range(db.tasks) :
        /\ r.type \in {TypeHeading, TypeTask}
        /\ \/ r.project = project_uuid
           \/ r.heading # None /\ IsRow(r.heading) /\ RowOf(r.heading).project = project_uuid}

NextSiblingAttempted(i) ==
    \A n \in DOMAIN LevelItems(i) :
        (n > 1 /\ LevelItems(i)[n - 1] = log[i].item) => AttemptedAfter(i, LevelItems(i)[n])

\* C23: if no target list can be resolved for a Project, or the create_task
\* call for the Project fails, the Project's id is not added to the placed
\* ids, no create_task call is issued in the whole run, Step 2 or Step 3, for
\* any of the Project's Headings or Tasks, and Step 2 goes on with the next
\* Project.
C23_ProjectSkip ==
    \A i \in SkippedProjectCalls :
        /\ log[i].item \notin migrated_project_task_ids
        /\ \A r \in ItemsOfProject(log[i].item) : CreateCalls(r.uuid) = {}
        /\ Phase2Over => NextSiblingAttempted(i)

----------------------------------------------------------------------------
(* C24 *)

\* the placeholder create_task calls the service refused
FailedHeadingCalls ==
    {i \in CreateTaskCalls : log[i].by = "heading" /\ log[i].outcome = "HttpError"}

\* the Project of the Heading of log[i]
ProjectOfCall(i) == RowOf(log[i].item).project

DirectTasksAttempted(i) ==
    \A u \in Range(Uuids(get_tasks_for_project(db, ProjectOfCall(i)))) :
        \E j \in CreateTaskCalls : j > i /\ log[j].item = u /\ log[j].by = "direct_task"

\* C24 as stated: if the placeholder create_task call for a Heading fails,
\* the Heading's id is not added to the placed ids and no create_task call is
\* issued in Step 2 for the Tasks under that Heading, while the Project's
\* remaining Headings and the Project's direct Tasks are still attempted.
C24_RemainingAttempted ==
    \A i \in FailedHeadingCalls :
        /\ log[i].exc = ""
        /\ log[i].item \notin migrated_project_task_ids
        /\ \A r \in Range(db.tasks) :
              r.heading = log[i].item =>
                  \A j \in CreateCalls(r.uuid) : log[j].phase # 2
        /\ Phase2Over =>
              /\ \A u \in LaterSiblings(i) : AttemptedAfter(i, u)
              /\ DirectTasksAttempted(i)

\* C24 amended: if the placeholder create_task call for a Heading fails with
\* HttpError, the Heading's id is not added to the placed ids and no
\* create_task call is issued in Step 2 for the Tasks under that Heading; the
\* Project's next Heading is attempted, and so are all its remaining Headings
\* and its direct Tasks unless a later call raises and ends the step.
C24_HeadingFailureLocal ==
    \A i \in FailedHeadingCalls :
        /\ log[i].exc = ""
        /\ log[i].item \notin migrated_project_task_ids
        /\ \A r \in Range(db.tasks) :
              r.heading = log[i].item =>
                  \A j \in CreateCalls(r.uuid) : log[j].phase # 2
        /\ Phase2Over => NextSiblingAttempted(i)
        /\ (Phase2Over /\ ~AbandonedAfter(i)) =>
              /\ \A u \in LaterSiblings(i) : AttemptedAfter(i, u)
              /\ DirectTasksAttempted(i)

C24_Witness ==
    \E i \in FailedHeadingCalls :
        /\ Phase2Over
        /\ \E r \in Range(db.tasks) : r.heading = log[i].item /\ r.trashed = 0
        /\ \E j \in CreateTaskCalls : j > i /\ log[j].by = "heading" /\ log[j].ret # 0
        /\ \E j \in CreateTaskCalls : j > i /\ log[j].by = "direct_task" /\ log[j].ret # 0

----------------------------------------------------------------------------
(* C25 *)

\* the Project a Heading or Task belongs to, None for a standalone Task
ProjectOf(r) ==
    CASE r.project # None -> r.project
      [] r.heading # None /\ IsRow(r.heading) -> RowOf(r.heading).project
      [] OTHER -> None

\* the create_task calls that created a RemoteTask
SuccessfulCreates == {i \in CreateTaskCalls : log[i].ret # 0}

----------------------------------------------------------------------------
(* C26 *)

\* the title, notes and due date a create_task call for the row must carry:
\* a Task's as the reader returns them, a Project's title and notes, a
\* Heading's title between dashes
ExpectedFields(r) ==
    CASE r.type = TypeTask ->
           [title |-> TaskDict(r).title, notes |-> TaskDict(r).notes,
            due |-> TaskDict(r).due_date]
      [] r.type = TypeProject ->
           [title |-> ProjectDict(r).title, notes |-> ProjectDict(r).notes, due |-> PyNone]
      [] OTHER ->
           [title |-> "--- " \o r.title \o " ---", notes |-> None, due |-> PyNone]

\* C26: for every item the driver creates, the create_task call carries the
\* source title, notes and due date unchanged for a Task, the source title
\* and notes and no due date for a Project, and for a Heading the title in
\* the form "--- <title> ---" with no notes and no due date.
C26_FieldPassThrough ==
    \A i \in CreateTaskCalls :
        /\ IsRow(log[i].item)
        /\ log[i].title = ExpectedFields(RowOf(log[i].item)).title
        /\ log[i].notes = ExpectedFields(RowOf(log[i].item)).notes
        /\ log[i].due = ExpectedFields(RowOf(log[i].item)).due

C26_Witness ==
    /\ \E i \in SuccessfulCreates : log[i].by = "project" /\ log[i].notes # None
    /\ \E i \in SuccessfulCreates : log[i].by = "heading"
    /\ \E i \in SuccessfulCreates : log[i].by = "heading_task" /\ log[i].notes # None
    /\ \E i \in SuccessfulCreates : log[i].by = "standalone" /\ log[i].due # PyNone

----------------------------------------------------------------------------
(* C27 *)

\* the non-trashed Tasks with a Heading and no Project
HeadingOnlyTasks == {r \in LiveTasks : r.heading # None /\ r.project = None}

Phase3Calls(uuid) == {i \in DOMAIN log : log[i].phase = 3 /\ log[i].item = uuid}

\* C27 as stated: a heading-only Task that was not placed in Step 2 is
\* created in Step 3 as a top-level RemoteTask; one that was placed in Step 2
\* is not created again.
C27_SweptAndCreated ==
    \A r \in HeadingOnlyTasks :
        /\ (pc = "done" /\ r.uuid \notin migrated_project_task_ids) =>
              \E i \in Created(r.uuid) : log[i].phase = 3 /\ log[i].parent = 0
        /\ r.uuid \in migrated_project_task_ids => Phase3Calls(r.uuid) = {}

\* C27 amended: a heading-only Task that was not placed in Step 2 is selected
\* by the sweep on project-null alone: unless Step 3 is abandoned it is
\* attempted there, and every create_task call Step 3 makes for it is a
\* standalone call with no parent; one that was placed in Step 2 has no
\* Step 3 call, and its one RemoteTask hangs under its Heading's placeholder.
C27_SweptIntoStep3 ==
    \A r \in HeadingOnlyTasks :
        /\ (pc = "done" /\ r.uuid \notin migrated_project_task_ids /\ ~ErrorIn(3)) =>
              Phase3Calls(r.uuid) # {}
        /\ \A i \in Phase3Calls(r.uuid) :
              /\ r.uuid \notin migrated_project_task_ids
              /\ log[i].by \in {"standalone", "default"}
              /\ log[i].parent = 0
        /\ r.uuid \in migrated_project_task_ids =>
              /\ Phase3Calls(r.uuid) = {}
              /\ Cardinality(Created(r.uuid)) = 1
              /\ \A i \in Created(r.uuid) :
                    \E j \in Created(r.heading) : log[i].parent = log[j].ret

C27_Witness ==
    \E r \in HeadingOnlyTasks :
        /\ pc = "done"
        /\ Created(r.heading) # {}
        /\ \E i \in CreateCalls(r.uuid) : log[i].phase = 2 /\ log[i].ret = 0
        /\ \E i \in Created(r.uuid) : log[i].phase = 3 /\ log[i].parent = 0

----------------------------------------------------------------------------
(* C28 *)

\* no call of the run failed or raised
NoFailure == fails = 0 /\ \A i \in DOMAIN log : log[i].exc = ""

IsLive(uuid, type) ==
    \E r \in Range(db.tasks) : r.uuid = uuid /\ r.type = type /\ r.trashed = 0

\* the Task is reached by a loop of the run: it has no project, or it is a
\* direct Task of a non-trashed Project, or it is under a non-trashed Heading
\* of a non-trashed Project
Reached(r) ==
    \/ r.project = None
    \/ r.heading = None /\ IsLive(r.project, TypeProject)
    \/ /\ r.heading # None
       /\ IsLive(r.heading, TypeHeading)
       /\ IsLive(RowOf(r.heading).project, TypeProject)

----------------------------------------------------------------------------
(* C29 *)

\* every placed id has a Step 2 create_task call that returned a task
PlacedSound ==
    \A u \in migrated_project_task_ids :
        \E i \in Created(u) :
            log[i].phase = 2 /\ log[i].outcome = "ok" /\ log[i].exc = ""

\* C29: in every reachable state a source id is in the placed ids only if a
\* create_task call for that Project, Heading or Task returned successfully
\* earlier in Step 2; ids are never removed; and Step 3 neither adds to nor
\* removes from the placed ids.
C29_PlacedIdsSound ==
    [][ /\ PlacedSound'
        /\ migrated_project_task_ids \subseteq migrated_project_task_ids'
        /\ Phase2Over => migrated_project_task_ids' = migrated_project_task_ids ]_vars

C29_Witness ==
    /\ pc = "done"
    /\ \E u \in migrated_project_task_ids : RowOf(u).type = TypeProject
    /\ \E u \in migrated_project_task_ids : RowOf(u).type = TypeHeading
    /\ \E u \in migrated_project_task_ids : RowOf(u).type = TypeTask
    /\ \E i \in CreateTaskCalls : log[i].phase = 2 /\ log[i].ret = 0
    /\ \E i \in CreateTaskCalls : log[i].phase = 3 /\ log[i].ret # 0

----------------------------------------------------------------------------
(* C30 *)

\* the clean-slate flag was set and the question answered 'y' or 'Y'
Affirmed == \E e \in LogSet : e.op = "clean_slate" /\ e.ret = 1 /\ e.title \in {"y", "Y"}

\* the calls clear_all_task_lists_and_tasks made
ClearCalls == {i \in DOMAIN log : log[i].by = "clear"}

\* the migration steps have started
MigrationStarted == pc \notin StartupPcs \cup {"exited"}

\* the lists of the account that no call of the run created: those that were
\* there before the run
ListsFromBefore ==
    {l \in Range(tasklists) :
        ~\E i \in DOMAIN log : /\ log[i].op = "create_task_list"
                               /\ log[i].ret = l.id
                               /\ log[i].title = l.title}

\* C30: when the clean-slate flag is set and confirmed, the migration steps
\* start only if every list that was in the account beforehand has been
\* deleted; if the list fetch or any deletion fails, the run closes the
\* source reader and exits with status 1 without creating anything.
C30_EffectiveOrFatal ==
    Affirmed =>
        /\ MigrationStarted => ListsFromBefore = {}
        /\ (\E i \in ClearCalls : log[i].outcome # "ok") =>
              /\ pc = "exited"
              /\ closed = 1
              /\ ExitStatus = 1
              /\ MigrationCalls = {}

====
